---- MODULE Spec2Model ----
(***************************************************************************)
(* Nutrition estimation in caloric: the two edge functions                 *)
(* (estimate-nutrition, scan-meal) and the FoodSearch component's call     *)
(* sites (searchFood through the edge function, searchFood and             *)
(* processImageFile calling the completion API directly).                  *)
(*                                                                         *)
(* JavaScript values are tagged records; a string is the sequence of its   *)
(* characters; the text of a completion is the sequence of its lexical     *)
(* tokens, which JSONparse reads with a recursive-descent parser.          *)
(***************************************************************************)
EXTENDS Integers, Sequences, FiniteSets, TLC

(***************************************************************************)
(* Bounds of the model.                                                    *)
(***************************************************************************)
\* Longest results array the completion API replies with.
MaxItems == 2
\* Most requests the edge functions serve at once.
MaxRequests == 2
\* Most rows that are inserted into food_entries.
MaxEntries == 2
\* Most messages that are sent in the chat.
MaxSends == 2

(***************************************************************************)
(* JavaScript values.                                                      *)
(***************************************************************************)
Undefined == [t |-> "undefined"]
Null == [t |-> "null"]
NaN == [t |-> "NaN"]
Num(n) == [t |-> "number", n |-> n]
Str(s) == [t |-> "string", s |-> s]
Arr(a) == [t |-> "array", a |-> a]
Obj(o) == [t |-> "object", o |-> o]
\* A string holding the text of a completion, kept as its tokens.
Text(x) == [t |-> "text", x |-> x]

\* ToBoolean: what `!v`, `v && ...` and `v || ...` look at.
Truthy(v) ==
    CASE v.t = "undefined" -> FALSE
      [] v.t = "null" -> FALSE
      [] v.t = "NaN" -> FALSE
      [] v.t = "number" -> v.n # 0
      [] v.t = "string" -> Len(v.s) > 0
      [] v.t = "text" -> Len(v.x) > 0
      [] OTHER -> TRUE

\* a || b
OrElse(a, b) == IF Truthy(a) THEN a ELSE b

\* Reading v.f throws a TypeError when v is undefined or null.
Throws(v) == v.t \in {"undefined", "null"}

\* v.f for a v that does not throw: the field of an object when it has it.
Get(v, f) ==
    IF v.t = "object" /\ f \in DOMAIN v.o THEN v.o[f] ELSE Undefined

\* v[i] for a v that does not throw, i counted from 1.
Index(v, i) ==
    IF v.t = "array" /\ i <= Len(v.a) THEN v.a[i] ELSE Undefined

\* Array.isArray(v)
IsArray(v) == v.t = "array"

\* typeof v === 'number'
IsNumber(v) == v.t \in {"number", "NaN"}

Whitespace == {" "}
Digit == [c \in {"0", "1", "2", "3", "4", "5", "6", "7", "8", "9"} |->
             CASE c = "0" -> 0 [] c = "1" -> 1 [] c = "2" -> 2 [] c = "3" -> 3
               [] c = "4" -> 4 [] c = "5" -> 5 [] c = "6" -> 6 [] c = "7" -> 7
               [] c = "8" -> 8 [] c = "9" -> 9]

RECURSIVE TrimStart(_)
TrimStart(s) ==
    IF s # <<>> /\ Head(s) \in Whitespace THEN TrimStart(Tail(s)) ELSE s

RECURSIVE TrimEnd(_)
TrimEnd(s) ==
    IF s # <<>> /\ s[Len(s)] \in Whitespace
    THEN TrimEnd(SubSeq(s, 1, Len(s) - 1)) ELSE s

\* String.prototype.trim
Trim(s) == TrimEnd(TrimStart(s))

RECURSIVE DigitsValue(_)
DigitsValue(s) ==
    IF s = <<>> THEN 0
    ELSE 10 * DigitsValue(SubSeq(s, 1, Len(s) - 1)) + Digit[s[Len(s)]]

AllDigits(s) == s # <<>> /\ \A i \in 1..Len(s) : s[i] \in DOMAIN Digit

\* Number(string): the trimmed text read as a decimal integer, NaN otherwise.
StringToNumber(s) ==
    LET u == Trim(s) IN
    IF u = <<>> THEN Num(0)
    ELSE IF AllDigits(u) THEN Num(DigitsValue(u))
    ELSE IF Head(u) = "-" /\ AllDigits(Tail(u)) THEN Num(0 - DigitsValue(Tail(u)))
    ELSE NaN

\* Number(v)
RECURSIVE Number(_)
Number(v) ==
    CASE v.t = "number" -> v
      [] v.t = "NaN" -> NaN
      [] v.t = "null" -> Num(0)
      [] v.t = "undefined" -> NaN
      [] v.t = "string" -> StringToNumber(v.s)
      [] v.t = "array" ->
            IF Len(v.a) = 0 THEN Num(0)
            ELSE IF Len(v.a) = 1 /\ v.a[1].t \in {"number", "string", "null"}
                 THEN Number(v.a[1])
            ELSE NaN
      [] OTHER -> NaN

\* a > 0
GreaterThanZero(v) == v.t = "number" /\ v.n > 0

(***************************************************************************)
(* JSON text.  A text is a sequence of tokens: punctuation, number and     *)
(* string literals, member names, null, whitespace and words of prose.     *)
(***************************************************************************)
Punct(c) == [k |-> c]
LBrace == Punct("{")
RBrace == Punct("}")
LBracket == Punct("[")
RBracket == Punct("]")
Comma == Punct(",")
Colon == Punct(":")
NumTok(n) == [k |-> "num", n |-> n]
StrTok(s) == [k |-> "str", s |-> s]
KeyTok(key) == [k |-> "key", key |-> key]
NullTok == [k |-> "null"]
WsTok == [k |-> "ws"]
WordTok == [k |-> "word"]

\* The order JSON.stringify writes the members of the objects of this program.
KeyOrder == <<"foodQuery", "image", "prompt", "results", "error", "details", "message",
              "name", "calories", "protein", "carbs", "fat", "serving_size">>

RECURSIVE JSONstringify(_)
RECURSIVE StringifyElements(_, _)
RECURSIVE StringifyMembers(_, _)

\* JSON.stringify(v): undefined members are left out, NaN is written null.
JSONstringify(v) ==
    CASE v.t = "number" -> <<NumTok(v.n)>>
      [] v.t = "string" -> <<StrTok(v.s)>>
      [] v.t = "array" -> <<LBracket>> \o StringifyElements(v.a, 1) \o <<RBracket>>
      [] v.t = "object" -> <<LBrace>> \o StringifyMembers(v.o, 1) \o <<RBrace>>
      [] OTHER -> <<NullTok>>

StringifyElements(a, i) ==
    IF i > Len(a) THEN <<>>
    ELSE JSONstringify(a[i])
         \o (IF i < Len(a) THEN <<Comma>> ELSE <<>>)
         \o StringifyElements(a, i + 1)

StringifyMembers(o, i) ==
    LET written(key) == key \in DOMAIN o /\ o[key].t # "undefined"
        keys == SelectSeq(KeyOrder, written)
    IN  IF i > Len(keys) THEN <<>>
        ELSE <<KeyTok(keys[i]), Colon>> \o JSONstringify(o[keys[i]])
             \o (IF i < Len(keys) THEN <<Comma>> ELSE <<>>)
             \o StringifyMembers(o, i + 1)

ParseFail == [ok |-> FALSE, v |-> Undefined, i |-> 0]
ParseOk(v, i) == [ok |-> TRUE, v |-> v, i |-> i]
NoMembers == [key \in {} |-> Undefined]

RECURSIVE ParseValue(_, _)
RECURSIVE ParseElements(_, _, _)
RECURSIVE ParseMembers(_, _, _)

\* One JSON value starting at token i: the value and the index after it.
ParseValue(toks, i) ==
    IF i > Len(toks) THEN ParseFail
    ELSE CASE toks[i].k = "num" -> ParseOk(Num(toks[i].n), i + 1)
           [] toks[i].k = "str" -> ParseOk(Str(toks[i].s), i + 1)
           [] toks[i].k = "null" -> ParseOk(Null, i + 1)
           [] toks[i].k = "[" ->
                 IF i + 1 <= Len(toks) /\ toks[i + 1].k = "]"
                 THEN ParseOk(Arr(<<>>), i + 2)
                 ELSE ParseElements(toks, i + 1, <<>>)
           [] toks[i].k = "{" ->
                 IF i + 1 <= Len(toks) /\ toks[i + 1].k = "}"
                 THEN ParseOk(Obj(NoMembers), i + 2)
                 ELSE ParseMembers(toks, i + 1, NoMembers)
           [] OTHER -> ParseFail

ParseElements(toks, i, acc) ==
    LET e == ParseValue(toks, i) IN
    IF ~e.ok \/ e.i > Len(toks) THEN ParseFail
    ELSE IF toks[e.i].k = "]" THEN ParseOk(Arr(Append(acc, e.v)), e.i + 1)
    ELSE IF toks[e.i].k = "," THEN ParseElements(toks, e.i + 1, Append(acc, e.v))
    ELSE ParseFail

ParseMembers(toks, i, acc) ==
    IF i + 1 > Len(toks) \/ toks[i].k # "key" \/ toks[i + 1].k # ":" THEN ParseFail
    ELSE LET e == ParseValue(toks, i + 2)
             now == (toks[i].key :> e.v) @@ acc
         IN  IF ~e.ok \/ e.i > Len(toks) THEN ParseFail
             ELSE IF toks[e.i].k = "}" THEN ParseOk(Obj(now), e.i + 1)
             ELSE IF toks[e.i].k = "," THEN ParseMembers(toks, e.i + 1, now)
             ELSE ParseFail

NotWs(tok) == tok.k # "ws"

\* JSON.parse(text): ok is FALSE where JSON.parse throws a SyntaxError.
JSONparse(text) ==
    LET toks == SelectSeq(text, NotWs)
        r == ParseValue(toks, 1)
    IN  IF r.ok /\ r.i = Len(toks) + 1 THEN r ELSE ParseFail

IsWs(tok) == tok.k = "ws"

RECURSIVE TrimText(_)
\* text.trim() on a text of tokens.
TrimText(text) ==
    IF text # <<>> /\ IsWs(Head(text)) THEN TrimText(Tail(text))
    ELSE IF text # <<>> /\ IsWs(text[Len(text)])
         THEN TrimText(SubSeq(text, 1, Len(text) - 1))
    ELSE text

(***************************************************************************)
(* The inputs: requests, environments and what the completion API can      *)
(* answer.  A program literal that is never inspected is one element of    *)
(* its string.                                                             *)
(***************************************************************************)
Egg == <<"e", "g", "g">>

Item(name, calories, protein, carbs, fat, serving_size) ==
    Obj([name |-> name, calories |-> calories, protein |-> protein,
         carbs |-> carbs, fat |-> fat, serving_size |-> serving_size])

\* An item as both prompts ask for it.
ValidItem == Item(Str(Egg), Num(165), Num(31), Num(0), Num(4), Str(<<"100g">>))

Without(o, key) == [f \in DOMAIN o \ {key} |-> o[f]]

\* ValidItem with one member missing or off the schema.
DefectItems ==
    {Obj(Without(ValidItem.o, f)) : f \in {"name", "calories", "serving_size"}}
    \cup {Obj([ValidItem.o EXCEPT !.calories = c]) : c \in {Num(0 - 5), Str(<<"1", "2">>)}}
    \cup {Obj([ValidItem.o EXCEPT !.protein = c]) : c \in {Num(0 - 3), Str(<<"x">>)}}

\* What an element of a replied array can be.
Elements == {ValidItem} \cup DefectItems \cup {Null}

RECURSIVE ArraysUpTo(_)
ArraysUpTo(n) ==
    IF n = 0 THEN {<<>>}
    ELSE LET shorter == ArraysUpTo(n - 1) IN
         shorter \cup {Append(a, e) : a \in {b \in shorter : Len(b) = n - 1}, e \in Elements}

Arrays == {Arr(a) : a \in ArraysUpTo(MaxItems)}

\* The JSON values the completion API can write.
ReplyValues ==
    Arrays
    \cup {Obj([results |-> a]) : a \in Arrays}
    \cup {Obj([results |-> Null]), Obj([results |-> Num(5)]), Obj([results |-> ValidItem]),
          Obj(NoMembers), Obj([error |-> Str(<<"x">>)]), ValidItem, Null, Num(5), Str(Egg)}

\* Prose around a JSON value; prose may hold a brace of its own.
Prose == {<<>>, <<WsTok>>, <<WordTok>>, <<WordTok, LBrace, WordTok>>, <<WordTok, RBrace>>}

\* The values that are tried inside prose.
WrappedValues == {Obj([results |-> Arr(<<ValidItem>>)]), Arr(<<ValidItem>>)}

\* The texts a completion can hold.
Contents ==
    {JSONstringify(v) : v \in ReplyValues}
    \cup {pre \o JSONstringify(v) \o post : v \in WrappedValues, pre \in Prose, post \in Prose}
    \cup {<<>>, <<WordTok, WordTok>>,
          SubSeq(JSONstringify(Obj([results |-> Arr(<<ValidItem>>)])), 1, 9)}

Completion(content) ==
    Obj([choices |-> Arr(<<Obj([message |-> Obj([content |-> content])])>>)])

\* The bodies of a 2xx answer of the completion API.
CompletionData ==
    {Completion(Text(c)) : c \in Contents}
    \cup {Completion(Null), Obj([choices |-> Arr(<<>>)]),
          Obj([choices |-> Arr(<<Obj([message |-> Obj(NoMembers)])>>)]),
          Obj(NoMembers)}

\* What one fetch of the completion API can end in: a rejection (network
\* failure, timeout), a non-2xx status, a 2xx body that is not JSON, or a
\* 2xx body.
Outcomes ==
    {[kind |-> "throw"], [kind |-> "garbled"]}
    \cup {[kind |-> "status", status |-> st, noAccess |-> FALSE] : st \in {400, 401, 429, 500}}
    \cup {[kind |-> "status", status |-> 400, noAccess |-> TRUE]}
    \cup {[kind |-> "ok", data |-> d] : d \in CompletionData}

\* The completion API refuses a request that carries no valid bearer token.
OutcomesFor(key) ==
    IF Truthy(key) THEN Outcomes
    ELSE {[kind |-> "throw"], [kind |-> "status", status |-> 401, noAccess |-> FALSE]}

\* A value as its receiver reads it: written by JSON.stringify, read by JSON.parse.
Wire(v) == JSONparse(JSONstringify(v)).v

\* The bodies an HTTP client can post to estimate-nutrition.
TextBodies ==
    {<<WordTok>>, JSONstringify(Null), JSONstringify(Obj(NoMembers))}
    \cup {JSONstringify(Obj([foodQuery |-> q])) :
              q \in {Str(<<>>), Str(<<" ">>), Str(Egg), Str(<<" ">> \o Egg)}}

DataUrl == <<"data:image/", "jpeg", ";base64,", "AAAA">>

\* The bodies an HTTP client can post to scan-meal.
ImageBodies ==
    {<<WordTok>>, JSONstringify(Null), JSONstringify(Obj(NoMembers)),
     JSONstringify(Obj([foodQuery |-> Str(<<>>)])),
     JSONstringify(Obj([foodQuery |-> Str(Egg)]))}
    \cup {JSONstringify(Obj([image |-> i])) :
              i \in {Str(<<>>), Str(DataUrl), Str(<<"AAAA">>), Num(5)}}

\* An environment variable is a string or is not set.
EnvValues == {Undefined, Str(<<"sk-key">>)}

(***************************************************************************)
(* The edge functions.                                                     *)
(***************************************************************************)
corsHeaders ==
    [h \in {"Access-Control-Allow-Origin", "Access-Control-Allow-Headers"} |->
        IF h = "Access-Control-Allow-Origin" THEN "*"
        ELSE "authorization, x-client-info, apikey, content-type"]

\* The headers of a JSON response with the spread of corsHeaders left out.
contentTypeHeaders == ("Content-Type" :> "application/json")

\* {...corsHeaders, 'Content-Type': 'application/json'}
jsonHeaders == ("Content-Type" :> "application/json") @@ corsHeaders

\* new Response(JSON.stringify(body), {status, headers})
Response(body, status, headers) ==
    [status |-> status, headers |-> headers, body |-> Wire(body)]

\* new Response(null, {headers})
EmptyResponse(headers) == [status |-> 200, headers |-> headers, body |-> Undefined]

NoRequest == [fn |-> "none"]
NoResponse == [status |-> 0]
NoReply == [kind |-> "none"]

\* What a handler does with a request before its await of fetch: answer, or
\* call the completion API.
Answer(resp) == [fetch |-> FALSE, resp |-> resp]
CallApi == [fetch |-> TRUE, resp |-> NoResponse]

\* The fallback of estimate-nutrition.
EstimatedItem(foodQuery) ==
    Item(Str(foodQuery.s \o <<" (estimated)">>), Num(100), Num(5), Num(15), Num(3),
         Str(<<"100g">>))

\* The fallback of scan-meal and of processImageFile.
MixedMealItem ==
    Item(Str(<<"Mixed meal (AI estimated)">>), Num(350), Num(20), Num(30), Num(15),
         Str(<<"1 portion">>))

\* estimate-nutrition's catch block.
EstimateNutritionError ==
    Response(Obj([error |-> Str(<<"Failed to estimate nutrition">>),
                  details |-> Str(<<"error.message">>)]), 500, jsonHeaders)

\* estimate-nutrition with the foodQuery check left out.
EstimateNutritionRequestUnchecked(method, body) ==
    LET parsed == JSONparse(body)
    IN  IF method = "OPTIONS" THEN Answer(EmptyResponse(corsHeaders))
        ELSE IF ~parsed.ok \/ Throws(parsed.v) THEN Answer(EstimateNutritionError)
        ELSE CallApi

\* estimate-nutrition, from the request to the fetch.
EstimateNutritionRequest(method, body) ==
    LET parsed == JSONparse(body)
        foodQuery == Get(parsed.v, "foodQuery")
    IN  IF method = "OPTIONS" THEN Answer(EmptyResponse(corsHeaders))
        ELSE IF ~parsed.ok \/ Throws(parsed.v) THEN Answer(EstimateNutritionError)
        ELSE IF ~Truthy(foodQuery)
             THEN Answer(Response(Obj([error |-> Str(<<"Food query is required">>)]),
                                  400, jsonHeaders))
        ELSE CallApi

\* data.choices[0].message.content throws a TypeError.
ContentThrows(data) ==
    \/ Throws(Get(data, "choices"))
    \/ Throws(Index(Get(data, "choices"), 1))
    \/ Throws(Get(Index(Get(data, "choices"), 1), "message"))

\* data.choices[0].message.content, and data.choices[0]?.message?.content
\* where that does not throw.
ContentOf(data) ==
    IF Throws(Get(data, "choices")) \/ Throws(Index(Get(data, "choices"), 1))
       \/ Throws(Get(Index(Get(data, "choices"), 1), "message"))
    THEN Undefined
    ELSE Get(Get(Index(Get(data, "choices"), 1), "message"), "content")

\* estimate-nutrition, from the answer of the fetch to the response.
EstimateNutritionReply(foodQuery, outcome) ==
    IF outcome.kind # "ok" THEN EstimateNutritionError
    ELSE IF ContentThrows(outcome.data) \/ ContentOf(outcome.data).t # "text"
         THEN EstimateNutritionError
    ELSE LET nutritionText == TrimText(ContentOf(outcome.data).x)
             parsed == JSONparse(nutritionText)
             nutritionData == IF parsed.ok THEN parsed.v
                              ELSE Arr(<<EstimatedItem(foodQuery)>>)
             results == IF IsArray(nutritionData) THEN nutritionData
                        ELSE Arr(<<nutritionData>>)
         IN  Response(Obj([results |-> results]), 200, jsonHeaders)

\* scan-meal's outer catch block.
ScanMealError ==
    Response(Obj([error |-> Str(<<"Internal server error">>),
                  message |-> Str(<<"error.message">>)]), 500, jsonHeaders)

\* scan-meal, from the request to the fetch.
ScanMealRequest(method, body, openaiApiKey) ==
    LET parsed == JSONparse(body)
        image == Get(parsed.v, "image")
    IN  IF method = "OPTIONS" THEN Answer(EmptyResponse(corsHeaders))
        ELSE IF ~parsed.ok \/ Throws(parsed.v) THEN Answer(ScanMealError)
        ELSE IF ~Truthy(image)
             THEN Answer(Response(Obj([error |-> Str(<<"No image provided">>)]),
                                  400, jsonHeaders))
        ELSE IF ~Truthy(openaiApiKey)
             THEN Answer(Response(Obj([error |-> Str(<<"OpenAI API key not configured">>)]),
                                  500, jsonHeaders))
        ELSE IF image.t # "string" THEN Answer(ScanMealError)
        ELSE CallApi

\* One element of validatedResults.
ValidatedItem(item) ==
    Item(OrElse(Get(item, "name"), Str(<<"Unknown food">>)),
         OrElse(Number(Get(item, "calories")), Num(0)),
         OrElse(Number(Get(item, "protein")), Num(0)),
         OrElse(Number(Get(item, "carbs")), Num(0)),
         OrElse(Number(Get(item, "fat")), Num(0)),
         OrElse(Get(item, "serving_size"), Str(<<"1 serving">>)))

\* scan-meal's inner catch block.
ScanMealFallback ==
    Response(Obj([results |-> Arr(<<MixedMealItem>>)]), 200, jsonHeaders)

\* scan-meal with the inner try left out: a text that is not JSON goes to
\* the outer catch.
ScanMealParseUncaught(content) ==
    LET parsed == JSONparse(content.x)
        results == Get(parsed.v, "results")
    IN  IF ~parsed.ok \/ Throws(parsed.v) THEN ScanMealError
        ELSE IF Truthy(results) /\ IsArray(results)
             THEN IF \E i \in 1..Len(results.a) : Throws(results.a[i])
                  THEN ScanMealError
                  ELSE Response(
                         Obj([results |->
                                Arr([i \in 1..Len(results.a) |-> ValidatedItem(results.a[i])])]),
                         200, jsonHeaders)
        ELSE ScanMealFallback

\* scan-meal's try block over the text of the completion.
ScanMealParse(content) ==
    LET parsed == JSONparse(content.x)
        results == Get(parsed.v, "results")
    IN  IF ~parsed.ok \/ Throws(parsed.v) THEN ScanMealFallback
        ELSE IF Truthy(results) /\ IsArray(results)
             THEN IF \E i \in 1..Len(results.a) : Throws(results.a[i])
                  THEN ScanMealFallback
                  ELSE Response(
                         Obj([results |->
                                Arr([i \in 1..Len(results.a) |-> ValidatedItem(results.a[i])])]),
                         200, jsonHeaders)
        ELSE ScanMealFallback

\* scan-meal, from the answer of the fetch to the response.
ScanMealReply(outcome) ==
    IF outcome.kind \in {"throw", "garbled"} THEN ScanMealError
    ELSE IF outcome.kind = "status"
         THEN Response(Obj([error |-> Str(<<"Failed to analyze image">>),
                            details |-> Str(<<"errorText">>)]), 500, jsonHeaders)
    ELSE IF Throws(Get(outcome.data, "choices")) THEN ScanMealError
    ELSE IF ~Truthy(ContentOf(outcome.data))
         THEN Response(Obj([error |-> Str(<<"No analysis returned from AI">>)]),
                       500, jsonHeaders)
    ELSE ScanMealParse(ContentOf(outcome.data))

(***************************************************************************)
(* The FoodSearch component: the version that calls estimate-nutrition     *)
(* ("edge") and the version that calls the completion API itself           *)
(* ("direct").                                                             *)
(***************************************************************************)
\* What a handler leaves in the component: the results and the toast shown.
Shown(results, toast) == [results |-> results, toast |-> toast]

\* The fallback both versions of searchFood set.
SearchFallback(searchQuery) == Arr(<<EstimatedItem(Str(searchQuery))>>)

\* searchFood of the edge version, once supabase.functions.invoke has settled
\* with {data, error}: error is set for a non-2xx response.
SearchFoodSettled(searchQuery, resp) ==
    LET error == resp.status < 200 \/ resp.status > 299
        results == Get(resp.body, "results")
    IN  IF ~error /\ ~Throws(resp.body) /\ Truthy(results) /\ IsArray(results)
        THEN Shown(results, "Nutrition Estimated")
        ELSE Shown(SearchFallback(searchQuery), "Search Failed")

FirstIndex(text, k) ==
    IF \E i \in 1..Len(text) : text[i].k = k
    THEN CHOOSE i \in 1..Len(text) :
            text[i].k = k /\ \A j \in 1..(i - 1) : text[j].k # k
    ELSE 0

LastIndex(text, k) ==
    IF \E i \in 1..Len(text) : text[i].k = k
    THEN CHOOSE i \in 1..Len(text) :
            text[i].k = k /\ \A j \in (i + 1)..Len(text) : text[j].k # k
    ELSE 0

\* text.match(/\{[\s\S]*\}/): from the first "{" to the last "}" after it;
\* found is FALSE where match returns null.
JsonMatch(text) ==
    LET from == FirstIndex(text, "{")
        to == LastIndex(text, "}")
    IN  IF from > 0 /\ to > from
        THEN [found |-> TRUE, text |-> SubSeq(text, from, to)]
        ELSE [found |-> FALSE, text |-> <<>>]

\* The filter of validResults.
KeepsItem(item) ==
    /\ Truthy(Get(item, "name"))
    /\ IsNumber(Get(item, "calories"))
    /\ GreaterThanZero(Get(item, "calories"))

\* The map of validResults.
CleanItem(item) ==
    Item(Get(item, "name"),
         OrElse(Number(Get(item, "calories")), Num(0)),
         OrElse(Number(Get(item, "protein")), Num(0)),
         OrElse(Number(Get(item, "carbs")), Num(0)),
         OrElse(Number(Get(item, "fat")), Num(0)),
         OrElse(Get(item, "serving_size"), Str(<<"1 serving">>)))

\* parsedResults.results.filter(...).map(...)
ValidResults(results) ==
    LET kept == SelectSeq(results, KeepsItem)
    IN  [i \in 1..Len(kept) |-> CleanItem(kept[i])]

\* The inner try of searchFood and processImageFile over the text of the
\* completion: the valid results, or failed where it throws.
ParseResults(content) ==
    LET m == JsonMatch(content.x)
        parsed == JSONparse(m.text)
        results == Get(parsed.v, "results")
        failed == [failed |-> TRUE, results |-> <<>>]
    IN  IF ~m.found \/ ~parsed.ok \/ Throws(parsed.v) THEN failed
        ELSE IF Truthy(results) /\ IsArray(results) /\ Len(results.a) > 0
             THEN IF \E i \in 1..Len(results.a) : Throws(results.a[i]) THEN failed
                  ELSE IF Len(ValidResults(results.a)) > 0
                       THEN [failed |-> FALSE, results |-> ValidResults(results.a)]
                  ELSE failed
        ELSE failed

\* The fetch of the direct version ends in a throw to the outer catch.
FetchThrows(outcome) ==
    \/ outcome.kind # "ok"
    \/ Throws(Get(outcome.data, "choices"))
    \/ ~Truthy(ContentOf(outcome.data))

\* searchFood of the direct version, from the answer of the fetch on.
SearchFoodFetched(searchQuery, outcome) ==
    IF FetchThrows(outcome) THEN Shown(SearchFallback(searchQuery), "Search Failed")
    ELSE LET r == ParseResults(ContentOf(outcome.data))
         IN  IF r.failed THEN Shown(SearchFallback(searchQuery), "Nutrition Estimated")
             ELSE Shown(Arr(r.results), "Nutrition Found")

\* processImageFile, from the answer of the fetch on: the outer catch shows a
\* toast and leaves searchResults as it is.
ProcessImageFetched(searchResults, outcome) ==
    IF FetchThrows(outcome) THEN Shown(searchResults, "Scan Failed")
    ELSE LET r == ParseResults(ContentOf(outcome.data))
         IN  IF r.failed THEN Shown(Arr(<<MixedMealItem>>), "Meal Analyzed")
             ELSE Shown(Arr(r.results), "Meal Scanned Successfully!")

\* The files a user can hand to processImageFile; size in MB.
Files ==
    [type : {"image/jpeg", "text/plain"}, size : {1, 11}, readable : BOOLEAN]

\* file.type.startsWith('image/')
IsImage(file) == file.type \in {"image/jpeg", "image/png"}

\* file.size > 10 * 1024 * 1024
TooLarge(file) == file.size > 10

NoFile == [type |-> "none"]

\* What a user can type into the search box.
Queries == {<<" ">>, Egg, <<" ">> \o Egg}

(***************************************************************************)
(* State.  One invocation is followed at a time: an HTTP request served by *)
(* an edge function, or a handler of a freshly opened FoodSearch.          *)
(***************************************************************************)
VARIABLES
    env,            \* OPENAI_KEY, OPENAI_API_KEY (Deno.env), VITE_OPENAI_API_KEY
    httpReq,        \* the request an edge function is serving
    gwpc,           \* the edge function: "idle", "received", "fetch", "done"
    httpResp,       \* the response of the edge function
    fetches,        \* calls of the completion API made by this invocation
    reply,          \* what the call of the completion API ended in
    component,      \* the FoodSearch on screen: "none", "edge", "direct"
    handler,        \* its handler that was invoked: "none", "searchFood", "processImageFile"
    uipc,           \* that handler: "idle", "invoke", "fetch", "read", "scan", "returned"
    searchQuery,
    searchResults,
    loading,
    scanningPhoto,
    toast,          \* the title of the toast shown last
    file,           \* the file processImageFile was given
    inflight,       \* the requests the edge functions are serving concurrently
    profiles,       \* the rows of public.profiles
    food_entries,   \* the rows of public.food_entries
    nextId,         \* the id gen_random_uuid() gives the next food_entries row
    settings,       \* per user, the profile state of the Settings page (Null: none)
    last,           \* the latest operation on the store: who issued it and what came back
    saved,          \* history: per user, the profile of the latest save that succeeded
    inserted,       \* history: every food_entries row AddFoodEntry inserted
    profile,        \* Settings: its profile state (Null until fetchProfile set it)
    profileRow,     \* Settings: the row of profiles of the user of the session
    calls,          \* Settings: the calls of updateProfileWithCalculations under way
    entered,        \* history: per field, the value the user entered last
    selectedDate,   \* tracker: the date whose entries are shown
    todaysEntries,  \* tracker: the entries shown, newest first
    trackerLoading, \* tracker: its loading state
    showFoodSearch,
    showCustomFood,
    selectedMealType,
    pending,        \* tracker: the loads, inserts and deletes under way
    resolved,       \* history: the meal_type of every insert addFoodEntry sent
    loadFailed,     \* history: a load of entries ended in an error
    loadedDate,     \* history: the date of the load that set todaysEntries last
    clock,          \* the client: its time of day in seconds, its UTC offset in seconds
    stamped,        \* the date selected and the logged_at of the entry added last
    onboardingStep, \* Onboarding: the step shown
    onboardingProfile, \* Onboarding: its profile state, in whole units
    completing,     \* Onboarding: where handleComplete is
    upserted,       \* Onboarding: the values handleComplete handed to upsert
    chatMessages,   \* chat: the messages shown
    chatInput,      \* chat: the text of the input
    isChatLoading,  \* chat: the flag that disables the input and the send button
    chatCall,       \* chat: where sendChatMessage is
    sends           \* chat: how many messages sendChatMessage accepted

gateway == <<httpReq, gwpc, httpResp>>
ui == <<component, handler, uipc, searchQuery, searchResults, loading, scanningPhoto,
        toast, file>>
\* What the one invocation that is followed does not touch.
store == <<profiles, food_entries, nextId, settings, last, saved, inserted>>
\* The state of each page that is followed through its awaits.
settingsPage == <<profile, profileRow, calls, entered>>
trackerPage == <<selectedDate, todaysEntries, trackerLoading, showFoodSearch,
                 showCustomFood, selectedMealType, pending, resolved, loadFailed,
                 loadedDate>>
clientClock == <<clock, stamped>>
onboardingPage == <<onboardingStep, onboardingProfile, completing, upserted>>
chatPage == <<chatMessages, chatInput, isChatLoading, chatCall, sends>>
pages == <<settingsPage, trackerPage, clientClock, onboardingPage, chatPage>>
outside == <<inflight, store, pages>>
vars == <<env, httpReq, gwpc, httpResp, fetches, reply, component, handler, uipc,
          searchQuery, searchResults, loading, scanningPhoto, toast, file, inflight,
          profiles, food_entries, nextId, settings, last, saved, inserted,
          profile, profileRow, calls, entered, selectedDate, todaysEntries,
          trackerLoading, showFoodSearch, showCustomFood, selectedMealType, pending,
          resolved, loadFailed, loadedDate, clock, stamped,
          onboardingStep, onboardingProfile, completing, upserted,
          chatMessages, chatInput, isChatLoading, chatCall, sends>>

\* The users that hold an account (auth.users).
Users == {"alice", "bob"}

\* No operation on the store was issued yet.
NoOperation == [op |-> "none", actor |-> "none", id |-> 0, rows |-> {}]

\* The requests that can be in flight at once.
Slots == 1..MaxRequests

\* No request is in flight.
NoneInFlight == [s \in Slots |-> [pc |-> "idle"]]

(***************************************************************************)
(* Settings: the calculations of the page.  A number is counted in         *)
(* thousandths.                                                            *)
(***************************************************************************)
\* calculateBMR: the Mifflin-St Jeor equation.
calculateBMR(weight, height, age, gender) ==
    IF gender = "male"
    THEN 10 * weight + (25 * height) \div 4 - 5 * age + 5000
    ELSE 10 * weight + (25 * height) \div 4 - 5 * age - 161000

\* The activityMultipliers of the Settings page, in fortieths.
activityMultipliers ==
    [sedentary |-> 48, light |-> 55, moderate |-> 62, active |-> 69, veryActive |-> 76]

\* Math.round of a quotient of positive integers, as a whole number.
MathRound(n, d) == (2 * n + d) \div (2 * d)

\* calculateMaintenanceCalories
calculateMaintenanceCalories(bmr, activityLevel) ==
    1000 * MathRound(bmr * activityMultipliers[activityLevel], 40000)

\* calculateTargetCalories
calculateTargetCalories(maintenanceCalories, goal) ==
    CASE goal = "bulk" -> maintenanceCalories + 500000
      [] goal = "cut" -> maintenanceCalories - 500000
      [] OTHER -> maintenanceCalories

\* The profile with its calories calculated again, as
\* updateProfileWithCalculations leaves newProfile.
Recalculated(p) ==
    LET bmr == calculateBMR(p.weight, p.height, p.age, p.gender)
        maintenanceCalories == calculateMaintenanceCalories(bmr, p.activity_level)
    IN  [p EXCEPT !.maintenance_calories = maintenanceCalories,
                  !.target_calories =
                      calculateTargetCalories(maintenanceCalories, p.goal)]

\* The row of profiles the user of the Settings page has, without its id.
StoredProfile ==
    Recalculated([weight |-> 70000, height |-> 175000, age |-> 30000,
                  gender |-> "male", activity_level |-> "moderate", goal |-> "cut",
                  maintenance_calories |-> 0, target_calories |-> 0])

\* What the user can enter into the inputs of the Settings page.
SettingsInputs == [weight : {80000}, height : {180000}, age : {40000}]

\* No call of an asynchronous handler in this slot.
NoCall == [pc |-> "idle"]

\* The dates the tracker is moved between; the first is the date of today.
Dates == {"2025-06-30", "2025-07-01"}
Today == "2025-06-30"

Init ==
    /\ env \in [{"OPENAI_KEY", "OPENAI_API_KEY", "VITE_OPENAI_API_KEY"} -> EnvValues]
    /\ httpReq = NoRequest
    /\ gwpc = "idle"
    /\ httpResp = NoResponse
    /\ fetches = 0
    /\ reply = NoReply
    /\ component = "none"
    /\ handler = "none"
    /\ uipc = "idle"
    /\ searchQuery = <<>>
    /\ searchResults = Arr(<<>>)
    /\ loading = FALSE
    /\ scanningPhoto = FALSE
    /\ toast = ""
    /\ file = NoFile
    /\ inflight = NoneInFlight
    /\ profiles = {}
    /\ food_entries = {}
    /\ nextId = 1
    /\ settings = [u \in Users |-> Null]
    /\ last = NoOperation
    /\ saved = [u \in Users |-> Null]
    /\ inserted = {}
    /\ profile = Null
    /\ profileRow = StoredProfile
    /\ calls = [s \in Slots |-> NoCall]
    /\ entered = StoredProfile
    /\ selectedDate = Today
    /\ todaysEntries = <<>>
    /\ trackerLoading = TRUE
    /\ showFoodSearch = FALSE
    /\ showCustomFood = FALSE
    /\ selectedMealType = ""
    /\ pending = [s \in Slots |-> NoCall]
    /\ resolved = {}
    /\ loadFailed = FALSE
    /\ loadedDate = ""
    /\ clock = [time |-> 0, offset |-> 0]
    /\ stamped = Null
    /\ onboardingStep = 1
    /\ onboardingProfile = [weight |-> 0, height |-> 0, age |-> 0, gender |-> "male",
                            activity_level |-> "moderate", goal |-> "maintain",
                            maintenance_calories |-> 0, target_calories |-> 0]
    /\ completing = "idle"
    /\ upserted = Null
    /\ chatMessages = <<[role |-> "assistant", content |-> "greeting"]>>
    /\ chatInput = <<>>
    /\ isChatLoading = FALSE
    /\ chatCall = "idle"
    /\ sends = 0

\* Nothing is in progress and nothing is left of an earlier invocation.
Quiet == gwpc = "idle" /\ component = "none"

\* An HTTP client sends a request to one of the edge functions.
HttpRequest ==
    /\ Quiet
    /\ \E fn \in {"estimate-nutrition", "scan-meal"}, method \in {"OPTIONS", "POST"} :
        \E body \in IF fn = "scan-meal" THEN ImageBodies ELSE TextBodies :
            httpReq' = [fn |-> fn, method |-> method, body |-> body]
    /\ gwpc' = "received"
    /\ UNCHANGED <<env, httpResp, fetches, reply, ui>>
    /\ UNCHANGED outside

\* The step of a handler up to its fetch.
Serve(step) ==
    /\ gwpc = "received"
    /\ IF step.fetch
       THEN gwpc' = "fetch" /\ fetches' = fetches + 1 /\ UNCHANGED httpResp
       ELSE gwpc' = "done" /\ httpResp' = step.resp /\ UNCHANGED fetches
    /\ UNCHANGED <<env, httpReq, reply, ui>>
    /\ UNCHANGED outside

EstimateNutritionServe ==
    /\ httpReq.fn = "estimate-nutrition"
    /\ Serve(EstimateNutritionRequest(httpReq.method, httpReq.body))

ScanMealServe ==
    /\ httpReq.fn = "scan-meal"
    /\ Serve(ScanMealRequest(httpReq.method, httpReq.body, env["OPENAI_API_KEY"]))

\* The foodQuery the handler destructured from the request.
foodQueryOf(req) == Get(JSONparse(req.body).v, "foodQuery")

\* estimate-nutrition with the fetch tried again after a failed attempt.
EstimateNutritionFetchedRetrying ==
    /\ gwpc = "fetch"
    /\ httpReq.fn = "estimate-nutrition"
    /\ \E outcome \in OutcomesFor(env["OPENAI_KEY"]) :
        /\ reply' = outcome
        /\ IF outcome.kind # "ok" /\ fetches < 3
           THEN gwpc' = "fetch" /\ fetches' = fetches + 1 /\ UNCHANGED httpResp
           ELSE /\ gwpc' = "done"
                /\ httpResp' = EstimateNutritionReply(foodQueryOf(httpReq), outcome)
                /\ UNCHANGED fetches
    /\ UNCHANGED <<env, httpReq, ui>>
    /\ UNCHANGED outside

EstimateNutritionFetched ==
    /\ gwpc = "fetch"
    /\ httpReq.fn = "estimate-nutrition"
    /\ \E outcome \in OutcomesFor(env["OPENAI_KEY"]) :
        /\ reply' = outcome
        /\ httpResp' = EstimateNutritionReply(foodQueryOf(httpReq), outcome)
    /\ gwpc' = "done"
    /\ UNCHANGED <<env, httpReq, fetches, ui>>
    /\ UNCHANGED outside

ScanMealFetched ==
    /\ gwpc = "fetch"
    /\ httpReq.fn = "scan-meal"
    /\ \E outcome \in OutcomesFor(env["OPENAI_API_KEY"]) :
        /\ reply' = outcome
        /\ httpResp' = ScanMealReply(outcome)
    /\ gwpc' = "done"
    /\ UNCHANGED <<env, httpReq, fetches, ui>>
    /\ UNCHANGED outside

\* The response has gone to the HTTP client; the function waits for the next.
ResponseSent ==
    /\ gwpc = "done"
    /\ component = "none"
    /\ httpReq' = NoRequest
    /\ gwpc' = "idle"
    /\ httpResp' = NoResponse
    /\ fetches' = 0
    /\ reply' = NoReply
    /\ UNCHANGED <<env, ui>>
    /\ UNCHANGED outside

\* FoodSearch is mounted: the initial values of its useState calls.
Open ==
    /\ Quiet
    /\ component' \in {"edge", "direct"}
    /\ UNCHANGED <<env, gateway, fetches, reply, handler, uipc, searchQuery,
                   searchResults, loading, scanningPhoto, toast, file>>
    /\ UNCHANGED outside

\* onChange of the search box.
SetSearchQuery ==
    /\ component # "none"
    /\ handler = "none"
    /\ searchQuery' \in Queries
    /\ UNCHANGED <<env, gateway, fetches, reply, component, handler, uipc,
                   searchResults, loading, scanningPhoto, toast, file>>
    /\ UNCHANGED outside

\* searchFood of the edge version, up to its await of functions.invoke.
SearchFoodInvoke ==
    /\ component = "edge"
    /\ handler = "none"
    /\ handler' = "searchFood"
    /\ IF Trim(searchQuery) = <<>>
       THEN /\ toast' = "Error"
            /\ uipc' = "returned"
            /\ UNCHANGED <<gateway, loading>>
       ELSE /\ loading' = TRUE
            /\ uipc' = "invoke"
            /\ httpReq' = [fn |-> "estimate-nutrition", method |-> "POST",
                           body |-> JSONstringify(Obj([foodQuery |-> Str(searchQuery)]))]
            /\ gwpc' = "received"
            /\ UNCHANGED <<httpResp, toast>>
    /\ UNCHANGED <<env, fetches, reply, component, searchQuery, searchResults,
                   scanningPhoto, file>>
    /\ UNCHANGED outside

\* functions.invoke settles with the response of estimate-nutrition.
SearchFoodInvoked ==
    /\ uipc = "invoke"
    /\ gwpc = "done"
    /\ LET shown == SearchFoodSettled(searchQuery, httpResp)
       IN  searchResults' = shown.results /\ toast' = shown.toast
    /\ loading' = FALSE
    /\ uipc' = "returned"
    /\ UNCHANGED <<env, gateway, fetches, reply, component, handler, searchQuery,
                   scanningPhoto, file>>
    /\ UNCHANGED outside

\* searchFood of the direct version, up to its await of fetch.
SearchFoodFetch ==
    /\ component = "direct"
    /\ handler = "none"
    /\ handler' = "searchFood"
    /\ IF Trim(searchQuery) = <<>>
       THEN /\ toast' = "Error"
            /\ uipc' = "returned"
            /\ UNCHANGED <<searchResults, fetches>>
       ELSE IF ~Truthy(env["VITE_OPENAI_API_KEY"])
       THEN /\ toast' = "Search Failed"
            /\ searchResults' = SearchFallback(searchQuery)
            /\ uipc' = "returned"
            /\ UNCHANGED fetches
       ELSE /\ uipc' = "fetch"
            /\ fetches' = fetches + 1
            /\ UNCHANGED <<searchResults, toast>>
    /\ loading' = (uipc' = "fetch")
    /\ UNCHANGED <<env, gateway, reply, component, searchQuery, scanningPhoto, file>>
    /\ UNCHANGED outside

SearchFoodReturn ==
    /\ component = "direct"
    /\ uipc = "fetch"
    /\ \E outcome \in OutcomesFor(env["VITE_OPENAI_API_KEY"]) :
        /\ reply' = outcome
        /\ LET shown == SearchFoodFetched(searchQuery, outcome)
           IN  searchResults' = shown.results /\ toast' = shown.toast
    /\ loading' = FALSE
    /\ uipc' = "returned"
    /\ UNCHANGED <<env, gateway, fetches, component, handler, searchQuery,
                   scanningPhoto, file>>
    /\ UNCHANGED outside

\* processImageFile up to its await of the FileReader.
ProcessImageFile ==
    /\ component = "direct"
    /\ handler = "none"
    /\ handler' = "processImageFile"
    /\ \E f \in Files :
        /\ file' = f
        /\ IF ~IsImage(f)
           THEN toast' = "Invalid File" /\ uipc' = "returned" /\ UNCHANGED scanningPhoto
           ELSE IF TooLarge(f)
           THEN toast' = "File Too Large" /\ uipc' = "returned" /\ UNCHANGED scanningPhoto
           ELSE scanningPhoto' = TRUE /\ uipc' = "read" /\ UNCHANGED toast
    /\ UNCHANGED <<env, gateway, fetches, reply, component, searchQuery, searchResults,
                   loading>>
    /\ UNCHANGED outside

\* reader.onload resolves the promise: processImageFile up to its await of
\* fetch.  Nothing settles the promise when the file cannot be read.
ProcessImageFileRead ==
    /\ uipc = "read"
    /\ file.readable
    /\ IF ~Truthy(env["VITE_OPENAI_API_KEY"])
       THEN /\ toast' = "Scan Failed"
            /\ scanningPhoto' = FALSE
            /\ uipc' = "returned"
            /\ UNCHANGED fetches
       ELSE /\ uipc' = "scan"
            /\ fetches' = fetches + 1
            /\ UNCHANGED <<toast, scanningPhoto>>
    /\ UNCHANGED <<env, gateway, reply, component, handler, searchQuery, searchResults,
                   loading, file>>
    /\ UNCHANGED outside

ProcessImageFileReturn ==
    /\ uipc = "scan"
    /\ \E outcome \in OutcomesFor(env["VITE_OPENAI_API_KEY"]) :
        /\ reply' = outcome
        /\ LET shown == ProcessImageFetched(searchResults, outcome)
           IN  searchResults' = shown.results /\ toast' = shown.toast
    /\ scanningPhoto' = FALSE
    /\ uipc' = "returned"
    /\ UNCHANGED <<env, gateway, fetches, component, handler, searchQuery, loading, file>>
    /\ UNCHANGED outside

\* onClose: FoodSearch is unmounted and its state is gone.
Close ==
    /\ component # "none"
    /\ uipc \in {"idle", "returned"}
    /\ component' = "none"
    /\ handler' = "none"
    /\ uipc' = "idle"
    /\ searchQuery' = <<>>
    /\ searchResults' = Arr(<<>>)
    /\ loading' = FALSE
    /\ scanningPhoto' = FALSE
    /\ toast' = ""
    /\ file' = NoFile
    /\ httpReq' = NoRequest
    /\ gwpc' = "idle"
    /\ httpResp' = NoResponse
    /\ fetches' = 0
    /\ reply' = NoReply
    /\ UNCHANGED env
    /\ UNCHANGED outside

Next ==
    \/ HttpRequest
    \/ EstimateNutritionServe
    \/ ScanMealServe
    \/ EstimateNutritionFetched
    \/ ScanMealFetched
    \/ ResponseSent
    \/ Open
    \/ SetSearchQuery
    \/ SearchFoodInvoke
    \/ SearchFoodInvoked
    \/ SearchFoodFetch
    \/ SearchFoodReturn
    \/ ProcessImageFile
    \/ ProcessImageFileRead
    \/ ProcessImageFileReturn
    \/ Close

Spec == Init /\ [][Next]_vars

(***************************************************************************)
(* The contract of the Nutrition Estimation Gateway.                       *)
(***************************************************************************)
ItemFields == {"name", "calories", "protein", "carbs", "fat", "serving_size"}
NumericFields == {"calories", "protein", "carbs", "fat"}

NonEmptyString(v) == v.t = "string" /\ Len(v.s) > 0
NonNegative(v) == v.t = "number" /\ v.n >= 0

\* A NutritionItem: every field present, numbers >= 0, texts not empty.
SchemaItem(v) ==
    /\ v.t = "object"
    /\ ItemFields \subseteq DOMAIN v.o
    /\ \A f \in NumericFields : NonNegative(v.o[f])
    /\ NonEmptyString(v.o.name)
    /\ NonEmptyString(v.o.serving_size)

\* A list whose elements are all NutritionItems.
SchemaList(r) == IsArray(r) /\ \A i \in 1..Len(r.a) : SchemaItem(r.a[i])

\* A non-empty list of NutritionItems.
NonEmptySchemaList(r) == SchemaList(r) /\ Len(r.a) > 0

\* The response is HTTP 200 {results: r}.
Responded(r) ==
    /\ httpResp.status = 200
    /\ httpResp.body.t = "object"
    /\ DOMAIN httpResp.body.o = {"results"}
    /\ httpResp.body.o.results = r

\* The results of the response, Undefined when it carries none.
ResponseResults == IF httpResp.status = 200 THEN Get(httpResp.body, "results") ELSE Undefined

\* The response is an error of the given status with an {error} body.
RespondedError(status) ==
    /\ httpResp.status = status
    /\ Truthy(Get(httpResp.body, "error"))
    /\ Get(httpResp.body, "results") = Undefined

\* An edge function has answered a POST.
Answered(fn) == gwpc = "done" /\ httpReq.fn = fn /\ httpReq.method = "POST"

\* The body of the request as the handler reads it.
RequestJson == JSONparse(httpReq.body)

\* The fallback item of an edge function for the request it served.
FallbackOf(fn) ==
    IF fn = "scan-meal" THEN MixedMealItem ELSE EstimatedItem(foodQueryOf(httpReq))

\* The credential the edge function needs.
CredentialOf(fn) ==
    IF fn = "scan-meal" THEN env["OPENAI_API_KEY"] ELSE env["OPENAI_KEY"]

\* The request carries what the edge function estimates from.
HasContent(fn) ==
    /\ RequestJson.ok
    /\ IF fn = "scan-meal" THEN NonEmptyString(Get(RequestJson.v, "image"))
       ELSE NonEmptyString(Get(RequestJson.v, "foodQuery"))

\* The completion API answered 2xx with a text.
RepliedText == reply.kind = "ok" /\ ContentOf(reply.data).t = "text"

\* The text the completion API answered with.
RepliedContent == ContentOf(reply.data).x

\* The upstream call threw (network failure, timeout) or answered non-2xx.
UpstreamFailed == reply.kind \in {"throw", "status"}

EdgeFunctions == {"estimate-nutrition", "scan-meal"}

\* A handler of the component has returned.
Returned(version, h) == component = version /\ handler = h /\ uipc = "returned"

\* C1: a text request whose upstream reply is {results: [item]} with a
\* schema-valid item is answered HTTP 200 {results: [item]}, the item
\* unchanged, not nested in another element and not replaced by a fallback.
C1_ResultsObjectPassedThrough ==
    \A item \in {e \in Elements : SchemaItem(e)} :
        (/\ Answered("estimate-nutrition")
         /\ RepliedText
         /\ RepliedContent = JSONstringify(Obj([results |-> Arr(<<item>>)])))
        => Responded(Arr(<<item>>))

\* C2: for a non-empty text query, whatever text the completion holds, the
\* text path returns a non-empty list of items, each with calories, protein,
\* carbs and fat >= 0 and a non-empty name and serving size.
C2_TextPathReturnsSchemaList ==
    /\ (Answered("estimate-nutrition") /\ HasContent("estimate-nutrition") /\ RepliedText)
        => (httpResp.status = 200 /\ NonEmptySchemaList(ResponseResults))
    /\ (Returned("direct", "searchFood") /\ Trim(searchQuery) # <<>> /\ RepliedText)
        => NonEmptySchemaList(searchResults)

\* C3: when the upstream call throws, times out or answers non-2xx, exactly
\* one fallback item is returned, with no error status and nothing raised:
\* by scan-meal, by estimate-nutrition and by the photo scan of the component.
C3_UpstreamFailureYieldsFallback ==
    /\ \A fn \in EdgeFunctions :
           (Answered(fn) /\ UpstreamFailed) => Responded(Arr(<<FallbackOf(fn)>>))
    /\ (Returned("direct", "processImageFile") /\ UpstreamFailed)
        => searchResults = Arr(<<MixedMealItem>>)

\* C4: a request that has content, served with the credential configured,
\* ends in HTTP 200 with a schema-conformant results list whatever the
\* upstream call and the parsing do; only a request without content (400)
\* or a missing credential (500) is answered with an error.
C4_OnlyPreconditionAndConfigurationErrors ==
    \A fn \in EdgeFunctions :
        (Answered(fn) /\ HasContent(fn) /\ Truthy(CredentialOf(fn)))
        => (httpResp.status = 200 /\ NonEmptySchemaList(ResponseResults))

\* C5: a successful response never carries an empty list: an upstream
\* results array that is empty or yields no valid item is answered with one
\* fallback item.
C5_SuccessIsNonEmpty ==
    /\ \A fn \in EdgeFunctions :
           (Answered(fn) /\ httpResp.status = 200)
           => (IsArray(ResponseResults) /\ Len(ResponseResults.a) > 0)
    /\ \A fn \in EdgeFunctions :
           (/\ Answered(fn) /\ httpResp.status = 200 /\ RepliedText
            /\ JSONparse(RepliedContent).ok
            /\ Get(JSONparse(RepliedContent).v, "results") = Arr(<<>>))
           => Responded(Arr(<<FallbackOf(fn)>>))
    /\ (Returned("direct", "searchFood") /\ fetches > 0) => Len(searchResults.a) > 0

\* The i-th item of scan-meal's response keeps to the coercion rules for the
\* i-th item of the upstream results: a missing or non-numeric number is 0,
\* a missing serving size is "1 serving".
CoercedFrom(source, item) ==
    /\ \A f \in NumericFields :
           Number(Get(source, f)).t = "NaN" => Get(item, f) = Num(0)
    /\ Get(source, "serving_size") = Undefined
        => Get(item, "serving_size") = Str(<<"1 serving">>)

\* C6: every item returned has name, calories, protein, carbs, fat and
\* serving size present and every number non-negative: a missing or
\* non-numeric source value is 0, a negative one is not passed through, a
\* missing serving size is "1 serving".
C6_ItemsAreCoerced ==
    /\ \A fn \in EdgeFunctions :
           (Answered(fn) /\ httpResp.status = 200) => SchemaList(ResponseResults)
    /\ (Returned("direct", "searchFood") /\ fetches > 0) => SchemaList(searchResults)
    /\ (/\ Answered("scan-meal") /\ httpResp.status = 200 /\ RepliedText
        /\ ~Responded(Arr(<<MixedMealItem>>)))
        => \A i \in 1..Len(ResponseResults.a) :
               CoercedFrom(Get(JSONparse(RepliedContent).v, "results").a[i],
                           ResponseResults.a[i])

\* The request is a JSON object with no text (foodQuery missing or empty)
\* and no image.
EmptyTextNoImage ==
    /\ httpReq.fn \in EdgeFunctions
    /\ httpReq.method = "POST"
    /\ RequestJson.ok
    /\ RequestJson.v.t = "object"
    /\ Get(RequestJson.v, "foodQuery") \in {Undefined, Str(<<>>)}
    /\ Get(RequestJson.v, "image") = Undefined

\* C7: a request with empty text and no image is answered HTTP 400 {error},
\* and no call of the completion API is made for it.
C7_EmptyRequestIs400WithoutCall ==
    EmptyTextNoImage
    => /\ fetches = 0
       /\ gwpc # "fetch"
       /\ gwpc = "done" => RespondedError(400)

\* C7 witness: estimate-nutrition has answered such a request with 400.
C7_Witness ==
    /\ gwpc = "done"
    /\ EmptyTextNoImage
    /\ httpReq.fn = "estimate-nutrition"
    /\ httpResp.status = 400

\* C8: a text query that is empty or only whitespace is rejected with HTTP
\* 400 and is never answered with results or a fallback item.
C8_BlankQueryIsRejected ==
    (/\ Answered("estimate-nutrition")
     /\ RequestJson.ok
     /\ Get(RequestJson.v, "foodQuery").t = "string"
     /\ Trim(Get(RequestJson.v, "foodQuery").s) = <<>>)
    => RespondedError(400)

\* C9: with the credential absent, a request with valid content is answered
\* HTTP 500 {error} without a call of the completion API, by scan-meal and
\* by estimate-nutrition.
C9_MissingCredentialIs500WithoutCall ==
    \A fn \in EdgeFunctions :
        (httpReq.fn = fn /\ httpReq.method = "POST" /\ HasContent(fn)
         /\ ~Truthy(CredentialOf(fn)))
        => /\ fetches = 0
           /\ gwpc = "done" => RespondedError(500)

\* The JSON of the reply has no results array.
NoResultsArray(v) == ~IsArray(v) /\ ~IsArray(Get(v, "results"))

\* C10: when the JSON of the upstream reply has no results array (results
\* absent or not a list, or a bare value that is no list), exactly one
\* fallback item is returned.
C10_NoResultsArrayYieldsFallback ==
    /\ \A fn \in EdgeFunctions :
           (/\ Answered(fn) /\ RepliedText
            /\ JSONparse(RepliedContent).ok
            /\ NoResultsArray(JSONparse(RepliedContent).v))
           => Responded(Arr(<<FallbackOf(fn)>>))
    /\ (/\ Returned("direct", "processImageFile") /\ RepliedText
        /\ JSONparse(RepliedContent).ok
        /\ NoResultsArray(JSONparse(RepliedContent).v))
        => searchResults = Arr(<<MixedMealItem>>)

\* The calories of an item are a number above zero.
HasCalories(item) == GreaterThanZero(Get(item, "calories"))

\* The completion API answered with the JSON of an object whose results are
\* a non-empty list.
RepliedItems ==
    /\ RepliedText
    /\ JSONparse(RepliedContent).ok
    /\ IsArray(Get(JSONparse(RepliedContent).v, "results"))
    /\ Len(Get(JSONparse(RepliedContent).v, "results").a) > 0

\* The items of that list.
UpstreamItems == Get(JSONparse(RepliedContent).v, "results").a

\* A returned list in which the items without calories were dropped: it is
\* not empty, none of its items lacks calories, and it is the fallback alone
\* when no upstream item has calories.
DroppedFrom(items, results, fallback) ==
    /\ IsArray(results)
    /\ Len(results.a) > 0
    /\ Len(results.a) <= Len(items) \/ results = Arr(<<fallback>>)
    /\ \A i \in 1..Len(results.a) : HasCalories(results.a[i])
    /\ (\A i \in 1..Len(items) : ~HasCalories(items[i])) => results = Arr(<<fallback>>)

\* C11: items of the upstream reply whose calories are missing, non-numeric
\* or not positive are dropped from the returned list, none is returned with
\* calories 0, and when every item is dropped the fallback item is returned:
\* by scan-meal, by estimate-nutrition and by searchFood.
C11_ItemsWithoutCaloriesAreDropped ==
    /\ \A fn \in EdgeFunctions :
           (Answered(fn) /\ HasContent(fn) /\ RepliedItems)
           => DroppedFrom(UpstreamItems, ResponseResults, FallbackOf(fn))
    /\ (Returned("direct", "searchFood") /\ RepliedItems)
        => DroppedFrom(UpstreamItems, searchResults, EstimatedItem(Str(searchQuery)))

\* The text of the completion is the JSON of {results: [item]} between two
\* pieces of prose.
Embeds(item, pre, post) ==
    /\ RepliedText
    /\ RepliedContent = pre \o JSONstringify(Obj([results |-> Arr(<<item>>)])) \o post

\* C12: from a raw upstream text that embeds one JSON object {results:
\* [item]} in surrounding prose, exactly that one item is extracted,
\* unchanged, also when the prose before or after the object holds a brace:
\* by searchFood and processImageFile, and by scan-meal.
C12_EmbeddedObjectIsExtracted ==
    \A pre \in Prose, post \in Prose :
        /\ (Returned("direct", "searchFood") /\ Embeds(ValidItem, pre, post))
            => searchResults = Arr(<<ValidItem>>)
        /\ (Returned("direct", "processImageFile") /\ Embeds(ValidItem, pre, post))
            => searchResults = Arr(<<ValidItem>>)
        /\ (Answered("scan-meal") /\ Embeds(ValidItem, pre, post))
            => Responded(Arr(<<ValidItem>>))

\* The completion API answered with a text that is not empty and is not JSON.
RepliedNotJson ==
    /\ RepliedText
    /\ RepliedContent # <<>>
    /\ ~JSONparse(RepliedContent).ok

\* C13: when the upstream reply is a text that is not JSON, the edge
\* function answers HTTP 200, not 500, with a results list holding exactly
\* its one fallback item.
C13_NotJsonIsAnsweredWithFallback ==
    \A fn \in EdgeFunctions :
        (Answered(fn) /\ RepliedNotJson) => Responded(Arr(<<FallbackOf(fn)>>))

\* C13 witness: scan-meal has answered a reply of plain prose.
C13_Witness ==
    /\ Answered("scan-meal")
    /\ RepliedNotJson
    /\ RepliedContent = <<WordTok, WordTok>>
    /\ httpResp.status = 200

\* The completion API answered 2xx without a text: no choices, no message,
\* or a content that is missing, null or empty.
RepliedNoContent == reply.kind = "ok" /\ ~Truthy(ContentOf(reply.data))

\* C14: a 2xx upstream response that carries no text content is treated as
\* an upstream failure and answered with the fallback item, not with an
\* error: by scan-meal, by estimate-nutrition and by processImageFile.
C14_NoContentYieldsFallback ==
    /\ \A fn \in EdgeFunctions :
           (Answered(fn) /\ RepliedNoContent) => Responded(Arr(<<FallbackOf(fn)>>))
    /\ (Returned("direct", "processImageFile") /\ RepliedNoContent)
        => searchResults = Arr(<<MixedMealItem>>)

\* The response carries the header with the value.
HasHeader(resp, h, value) == h \in DOMAIN resp.headers /\ resp.headers[h] = value

\* C15: a preflight OPTIONS request is answered with an empty body and the
\* CORS headers, and every response of either edge function, on every path
\* (200 with results, 200 with the fallback, 400, 500), carries
\* Access-Control-Allow-Origin: *.
C15_EveryResponseCarriesCors ==
    gwpc = "done"
    => /\ HasHeader(httpResp, "Access-Control-Allow-Origin", "*")
       /\ httpReq.method = "OPTIONS"
            => /\ httpResp.body = Undefined
               /\ \A h \in DOMAIN corsHeaders : HasHeader(httpResp, h, corsHeaders[h])

\* C15 witness: estimate-nutrition has answered a preflight request.
C15_Witness ==
    /\ gwpc = "done"
    /\ httpReq.fn = "estimate-nutrition"
    /\ httpReq.method = "OPTIONS"
    /\ httpResp.body = Undefined
    /\ HasHeader(httpResp, "Access-Control-Allow-Origin", "*")

\* C16: each invocation makes at most one call of the completion API: once
\* the call has ended, in success, a non-2xx status, a missing content or a
\* parse failure, it was the only attempt and none follows, in the edge
\* functions and in searchFood and processImageFile.
C16_AtMostOneOutboundCall ==
    /\ fetches \in {0, 1}
    /\ reply # NoReply => fetches = 1 /\ gwpc # "fetch" /\ uipc \notin {"fetch", "scan"}

\* C16 witness: estimate-nutrition has answered after its one call ended in
\* a non-2xx status.
C16_Witness ==
    /\ Answered("estimate-nutrition")
    /\ reply.kind = "status"
    /\ fetches = 1

(***************************************************************************)
(* Concurrent requests.  The runtime calls the handler of serve once per   *)
(* request and interleaves the calls at their awaits; each call has its    *)
(* own foodQuery, image, response of the fetch and parsed results.         *)
(***************************************************************************)
\* The variables of the one invocation followed by Spec.
followed == <<httpReq, gwpc, httpResp, fetches, reply, component, handler, uipc,
              searchQuery, searchResults, loading, scanningPhoto, toast, file>>

\* The requests that are sent concurrently.
ConcurrentRequests ==
    {[fn |-> "estimate-nutrition", method |-> "POST",
      body |-> JSONstringify(Obj([foodQuery |-> Str(q)]))] : q \in {<<>>, Egg, <<" ">> \o Egg}}
    \cup {[fn |-> "scan-meal", method |-> "POST", body |-> JSONstringify(Obj([image |-> i]))] :
              i \in {Str(<<>>), Str(DataUrl)}}
    \cup {[fn |-> "estimate-nutrition", method |-> "OPTIONS", body |-> <<>>]}

\* What the fetch of a concurrent request can end in.
ConcurrentOutcomes ==
    {[kind |-> "throw"], [kind |-> "status", status |-> 401, noAccess |-> FALSE]}
    \cup {[kind |-> "ok", data |-> d] :
              d \in {Completion(Text(JSONstringify(Arr(<<ValidItem>>)))),
                     Completion(Text(JSONstringify(Obj([results |-> Arr(<<ValidItem>>)])))),
                     Completion(Text(<<WordTok, WordTok>>)),
                     Completion(Null)}}

\* The completion API refuses a request that carries no valid bearer token.
ConcurrentOutcomesFor(key) ==
    IF Truthy(key) THEN ConcurrentOutcomes
    ELSE {o \in ConcurrentOutcomes : o.kind \in {"throw", "status"}}

\* The handler of the function the request was sent to, up to its fetch.
HandlerRequest(req) ==
    IF req.fn = "scan-meal"
    THEN ScanMealRequest(req.method, req.body, env["OPENAI_API_KEY"])
    ELSE EstimateNutritionRequest(req.method, req.body)

\* The call has read a foodQuery from its request.
ReadFoodQuery(r) ==
    r.pc # "idle" /\ r.req.fn = "estimate-nutrition" /\ r.req.method = "POST"

\* The foodQuery of the first call in flight that has read one: what a
\* foodQuery kept at module scope would hold.
foodQueryShared(s) ==
    foodQueryOf(inflight[CHOOSE x \in Slots :
                            /\ ReadFoodQuery(inflight[x])
                            /\ \A y \in 1..(x - 1) : ~ReadFoodQuery(inflight[y])].req)

\* const { foodQuery } = await req.json(): a local of the call.
foodQueryInScope(s) == foodQueryOf(inflight[s].req)

\* The key each function sends to the completion API.
KeyOf(fn) == IF fn = "scan-meal" THEN env["OPENAI_API_KEY"] ELSE env["OPENAI_KEY"]

\* A request arrives while others may be in flight.
Receive(s) ==
    /\ inflight[s].pc = "idle"
    /\ \E req \in ConcurrentRequests :
        inflight' = [inflight EXCEPT ![s] = [pc |-> "received", req |-> req,
                                             reply |-> NoReply, resp |-> NoResponse]]
    /\ UNCHANGED <<env, followed, store, pages>>

\* The call for the request runs up to its await of fetch, or returns.
ServeConcurrently(s) ==
    /\ inflight[s].pc = "received"
    /\ LET step == HandlerRequest(inflight[s].req)
       IN  inflight' = [inflight EXCEPT ![s].pc = IF step.fetch THEN "fetch" ELSE "done",
                                        ![s].resp = step.resp]
    /\ UNCHANGED <<env, followed, store, pages>>

\* The fetch of the call settles and the call returns its response.
FetchedConcurrently(s) ==
    /\ inflight[s].pc = "fetch"
    /\ \E outcome \in ConcurrentOutcomesFor(KeyOf(inflight[s].req.fn)) :
        inflight' = [inflight EXCEPT
                        ![s].pc = "done",
                        ![s].reply = outcome,
                        ![s].resp = IF inflight[s].req.fn = "scan-meal"
                                    THEN ScanMealReply(outcome)
                                    ELSE EstimateNutritionReply(foodQueryInScope(s), outcome)]
    /\ UNCHANGED <<env, followed, store, pages>>

\* The response has gone to its client.
SentConcurrently(s) ==
    /\ inflight[s].pc = "done"
    /\ inflight' = [inflight EXCEPT ![s] = [pc |-> "idle"]]
    /\ UNCHANGED <<env, followed, store, pages>>

ConcurrentInit ==
    /\ Init
    /\ env["VITE_OPENAI_API_KEY"] = Undefined

ConcurrentNext ==
    \E s \in Slots :
        \/ Receive(s)
        \/ ServeConcurrently(s)
        \/ FetchedConcurrently(s)
        \/ SentConcurrently(s)

ConcurrentSpec == ConcurrentInit /\ [][ConcurrentNext]_vars

\* The response a request gets when it is served alone: fixed by its body,
\* the credential and the reply to its own call.
ServedAlone(r) ==
    LET step == HandlerRequest(r.req)
    IN  IF ~step.fetch THEN step.resp
        ELSE IF r.req.fn = "scan-meal" THEN ScanMealReply(r.reply)
        ELSE EstimateNutritionReply(foodQueryOf(r.req), r.reply)

\* C17: the edge functions hold no state across requests: under every
\* interleaving of concurrent requests, the response of each request is the
\* one it gets when served alone, fixed by its own body, the configured
\* credential and the upstream reply to its own call.
C17_ResponsesAreIsolated ==
    \A s \in Slots :
        inflight[s].pc = "done"
        => /\ inflight[s].resp = ServedAlone(inflight[s])
           /\ inflight[s].reply = NoReply <=> ~HandlerRequest(inflight[s].req).fetch

\* C17 witness: two calls of estimate-nutrition with different queries were
\* in flight together and both were answered with a fallback.
C17_Witness ==
    /\ \A s \in {1, 2} :
           /\ inflight[s].pc = "done"
           /\ inflight[s].req.fn = "estimate-nutrition"
           /\ inflight[s].reply.kind = "ok"
           /\ inflight[s].resp.status = 200
           /\ inflight[s].reply.data = Completion(Text(<<WordTok, WordTok>>))
    /\ inflight[1].req.body # inflight[2].req.body

(***************************************************************************)
(* The store: public.profiles and public.food_entries under row level      *)
(* security, and the handlers of the pages that read and write them.  A    *)
(* number is counted in thousandths.                                       *)
(***************************************************************************)
\* What a user can enter as a profile (weight in kg, age in years).
ProfileInputs == [weight : {70000, 70125, 1000000}, age : {30000, 30500}]

\* The foods a user logs.
Foods == {"egg", "toast"}

\* The value a DECIMAL(5,2) column stores: rounded to hundredths; an
\* overflow is an error.
Decimal52(n) ==
    LET rounded == ((n + 5) \div 10) * 10
    IN  [ok |-> rounded < 1000000, v |-> rounded]

\* An INTEGER column takes no fraction.
IntegerColumn(n) == [ok |-> n % 1000 = 0, v |-> n]

\* The columns take the values of the profile.
Accepts(p) == Decimal52(p.weight).ok /\ IntegerColumn(p.age).ok

\* The row of profiles with the id and the values of the profile.
ProfileRow(id, p) ==
    [id |-> id, weight |-> Decimal52(p.weight).v, age |-> IntegerColumn(p.age).v]

\* The policies of the migration; auth.uid() is uid.
ProfilesSelectPolicy(uid, row) == uid = row.id
ProfilesInsertPolicy(uid, row) == uid = row.id
ProfilesUpdatePolicy(uid, row) == uid = row.id
FoodEntriesSelectPolicy(uid, row) == uid = row.user_id
FoodEntriesInsertPolicy(uid, row) == uid = row.user_id
FoodEntriesUpdatePolicy(uid, row) == uid = row.user_id
FoodEntriesDeletePolicy(uid, row) == uid = row.user_id

\* What a statement leaves: the table, and whether it ended in an error.
Done(table) == [ok |-> TRUE, table |-> table]
Failed(table) == [ok |-> FALSE, table |-> table]

\* An upsert that adds its row beside the row with the same id.
ProfilesUpsertDuplicating(uid, id, p) ==
    IF ~Accepts(p) \/ ~ProfilesInsertPolicy(uid, ProfileRow(id, p)) THEN Failed(profiles)
    ELSE Done(profiles \cup {ProfileRow(id, p)})

\* from('profiles').upsert({id, ...p}): INSERT ... ON CONFLICT (id) DO UPDATE.
ProfilesUpsert(uid, id, p) ==
    LET row == ProfileRow(id, p)
        conflicting == {r \in profiles : r.id = id}
    IN  IF ~Accepts(p) \/ ~ProfilesInsertPolicy(uid, row) THEN Failed(profiles)
        ELSE IF conflicting = {} THEN Done(profiles \cup {row})
        ELSE IF \E r \in conflicting : ~ProfilesUpdatePolicy(uid, r)
             THEN Failed(profiles)
        ELSE IF ~ProfilesUpdatePolicy(uid, row) THEN Failed(profiles)
        ELSE Done((profiles \ conflicting) \cup {row})

\* from('profiles').update(p).eq('id', id), with the new id when the
\* statement sets one.
ProfilesUpdate(uid, id, p, newId) ==
    LET targets == {r \in profiles :
                        ProfilesSelectPolicy(uid, r) /\ ProfilesUpdatePolicy(uid, r) /\ r.id = id}
        rows == {ProfileRow(newId, p) : r \in targets}
    IN  IF ~Accepts(p) THEN Failed(profiles)
        ELSE IF \E r \in rows : ~ProfilesUpdatePolicy(uid, r) THEN Failed(profiles)
        ELSE IF \E r \in rows : \E other \in profiles \ targets : other.id = r.id
             THEN Failed(profiles)
        ELSE Done((profiles \ targets) \cup rows)

\* from('profiles').select('*').eq('id', id)
ProfilesSelect(uid, id) == {r \in profiles : ProfilesSelectPolicy(uid, r) /\ r.id = id}

\* from('food_entries').select('*').eq('user_id', user_id)
FoodEntriesSelect(uid, user_id) ==
    {r \in food_entries : FoodEntriesSelectPolicy(uid, r) /\ r.user_id = user_id}

\* The values of the meal sections.
MealTypes == {"breakfast", "lunch", "dinner", "snacks"}

\* CHECK (meal_type IS NULL OR meal_type IN (...)); the meal_type of a row
\* is NULL where the row has no such field.
valid_meal_type(row) == "meal_type" \in DOMAIN row => row.meal_type \in MealTypes

\* from('food_entries').insert(row)
FoodEntriesInsert(uid, row) ==
    IF ~FoodEntriesInsertPolicy(uid, row) \/ ~valid_meal_type(row) THEN Failed(food_entries)
    ELSE Done(food_entries \cup {row})

\* The delete on a table whose row level security is not enabled.
FoodEntriesDeleteWithoutRls(uid, id) == Done({r \in food_entries : r.id # id})

\* from('food_entries').delete().eq('id', id)
FoodEntriesDelete(uid, id) ==
    Done({r \in food_entries :
              ~(FoodEntriesSelectPolicy(uid, r) /\ FoodEntriesDeletePolicy(uid, r) /\ r.id = id)})

\* An operation on the store: the handler or statement, the user of the
\* session, the id it named (0: none) and the rows that came back.
Operation(op, actor, id, rows) == [op |-> op, actor |-> actor, id |-> id, rows |-> rows]

\* The profile state a page builds from a row of profiles.
TypedProfile(row) == [weight |-> row.weight, age |-> row.age]

\* Onboarding: handleComplete with the profile the user entered.
HandleComplete(u) ==
    \E p \in ProfileInputs :
        LET r == ProfilesUpsert(u, u, p)
        IN  /\ profiles' = r.table
            /\ last' = Operation("handleComplete", u, 0, {})
            /\ saved' = IF r.ok THEN [saved EXCEPT ![u] = p] ELSE saved
            /\ UNCHANGED <<env, followed, pages, inflight, food_entries, nextId, settings, inserted>>

\* Settings: fetchProfile of the effect that runs on mount.
FetchProfile(u) ==
    LET rows == ProfilesSelect(u, u)
    IN  /\ settings' = [settings EXCEPT ![u] =
                            IF Cardinality(rows) = 1
                            THEN TypedProfile(CHOOSE r \in rows : TRUE) ELSE Null]
        /\ last' = Operation("fetchProfile", u, 0, rows)
        /\ UNCHANGED <<env, followed, pages, inflight, profiles, food_entries, nextId, saved,
                       inserted>>

\* What an update of the Settings page leaves in saved: the profile, when
\* the store took it for a row.
SavedBy(u, p, r) ==
    IF r.ok /\ ProfilesSelect(u, u) # {} THEN [saved EXCEPT ![u] = p] ELSE saved

\* Settings: updateProfileWithCalculations for an edited field, with its
\* auto-save.
UpdateProfileWithCalculations(u) ==
    /\ settings[u] # Null
    /\ \E p \in ProfileInputs :
        \E newProfile \in {[settings[u] EXCEPT !.weight = p.weight],
                           [settings[u] EXCEPT !.age = p.age]} :
            LET r == ProfilesUpdate(u, u, newProfile, u)
            IN  /\ profiles' = r.table
                /\ settings' = [settings EXCEPT ![u] = newProfile]
                /\ last' = Operation("updateProfileWithCalculations", u, 0, {})
                /\ saved' = SavedBy(u, newProfile, r)
    /\ UNCHANGED <<env, followed, pages, inflight, food_entries, nextId, inserted>>

\* Settings: handleSave.  The page renders nothing while profile is null.
HandleSave(u) ==
    /\ settings[u] # Null
    /\ LET r == ProfilesUpdate(u, u, settings[u], u)
       IN  /\ profiles' = r.table
           /\ last' = Operation("handleSave", u, 0, {})
           /\ saved' = SavedBy(u, settings[u], r)
    /\ UNCHANGED <<env, followed, pages, inflight, food_entries, nextId, settings, inserted>>

\* Tracker: loadEntriesForDate.
LoadEntriesForDate(u) ==
    /\ last' = Operation("loadEntriesForDate", u, 0, FoodEntriesSelect(u, u))
    /\ UNCHANGED <<env, followed, pages, inflight, profiles, food_entries, nextId, settings,
                   saved, inserted>>

\* Tracker: addFoodEntry.
AddFoodEntry(u) ==
    /\ nextId <= MaxEntries
    /\ \E food \in Foods :
        LET row == [id |-> nextId, user_id |-> u, name |-> food]
            r == FoodEntriesInsert(u, row)
        IN  /\ food_entries' = r.table
            /\ inserted' = IF r.ok THEN inserted \cup {row} ELSE inserted
            /\ last' = Operation("addFoodEntry", u, nextId, IF r.ok THEN {row} ELSE {})
    /\ nextId' = nextId + 1
    /\ UNCHANGED <<env, followed, pages, inflight, profiles, settings, saved>>

\* Tracker: removeEntry(id), for whatever id it is called with.
RemoveEntry(u) ==
    /\ \E id \in 1..MaxEntries :
        /\ food_entries' = FoodEntriesDelete(u, id).table
        /\ last' = Operation("removeEntry", u, id, {})
    /\ UNCHANGED <<env, followed, pages, inflight, profiles, nextId, settings, saved, inserted>>

\* The store as the pages find it; no edge function is involved.
StoreInit ==
    /\ Init
    /\ \A k \in DOMAIN env : env[k] = Undefined

\* The pages that write profiles: Onboarding and Settings.
ProfilesNext ==
    \E u \in Users :
        \/ HandleComplete(u)
        \/ FetchProfile(u)
        \/ UpdateProfileWithCalculations(u)
        \/ HandleSave(u)

ProfilesSpec == StoreInit /\ [][ProfilesNext]_vars

\* The page that writes food_entries: the tracker.
EntriesNext ==
    \E u \in Users :
        \/ LoadEntriesForDate(u)
        \/ AddFoodEntry(u)
        \/ RemoveEntry(u)

EntriesSpec == StoreInit /\ [][EntriesNext]_vars

(***************************************************************************)
(* Any client that holds the session of a user can send the store a        *)
(* statement of its own making; row level security is what answers it.     *)
(***************************************************************************)
\* The profiles a statement writes.
DirectProfiles == {p \in ProfileInputs : Accepts(p)}

\* No policy of profiles is FOR DELETE: with row level security enabled, no
\* row passes.
ProfilesDeletePolicy(uid, row) == FALSE

\* from('profiles').delete().eq('id', id)
ProfilesDelete(uid, id) ==
    Done({r \in profiles :
              ~(ProfilesSelectPolicy(uid, r) /\ ProfilesDeletePolicy(uid, r) /\ r.id = id)})

\* from('food_entries').update({user_id, name}).eq('id', id): USING also
\* checks the rows as updated, as the policy has no WITH CHECK.
FoodEntriesUpdate(uid, id, user_id, name) ==
    LET targets == {r \in food_entries :
                        /\ FoodEntriesSelectPolicy(uid, r)
                        /\ FoodEntriesUpdatePolicy(uid, r)
                        /\ r.id = id}
        rows == {[r EXCEPT !.user_id = user_id, !.name = name] : r \in targets}
    IN  IF \E r \in rows : ~FoodEntriesUpdatePolicy(uid, r) THEN Failed(food_entries)
        ELSE Done((food_entries \ targets) \cup rows)

\* select('*') of a table with no filter.
DirectSelect(u) ==
    /\ \/ last' = Operation("select profiles", u, 0,
                            {r \in profiles : ProfilesSelectPolicy(u, r)})
       \/ last' = Operation("select food_entries", u, 0,
                            {r \in food_entries : FoodEntriesSelectPolicy(u, r)})
    /\ UNCHANGED <<env, followed, pages, inflight, profiles, food_entries, nextId, settings,
                   saved, inserted>>

\* upsert, update (of the id as well) and delete of profiles.
DirectProfilesWrite(u) ==
    /\ \E id \in Users, newId \in Users, p \in DirectProfiles :
        \/ /\ profiles' = ProfilesUpsert(u, id, p).table
           /\ last' = Operation("upsert profiles", u, 0, {})
        \/ /\ profiles' = ProfilesUpdate(u, id, p, newId).table
           /\ last' = Operation("update profiles", u, 0, {})
        \/ /\ profiles' = ProfilesDelete(u, id).table
           /\ last' = Operation("delete profiles", u, 0, {})
    /\ UNCHANGED <<env, followed, pages, inflight, food_entries, nextId, settings, saved,
                   inserted>>

\* insert of a food_entries row with whatever user_id.
DirectFoodEntriesInsert(u) ==
    /\ nextId <= MaxEntries
    /\ \E user_id \in Users, food \in Foods :
        LET row == [id |-> nextId, user_id |-> user_id, name |-> food]
            r == FoodEntriesInsert(u, row)
        IN  /\ food_entries' = r.table
            /\ last' = Operation("insert food_entries", u, nextId,
                                 IF r.ok THEN {row} ELSE {})
    /\ nextId' = nextId + 1
    /\ UNCHANGED <<env, followed, pages, inflight, profiles, settings, saved, inserted>>

\* update of a food_entries row, of its user_id as well.
DirectFoodEntriesUpdate(u) ==
    /\ \E id \in 1..MaxEntries, user_id \in Users, food \in Foods :
        /\ food_entries' = FoodEntriesUpdate(u, id, user_id, food).table
        /\ last' = Operation("update food_entries", u, id, {})
    /\ UNCHANGED <<env, followed, pages, inflight, profiles, nextId, settings, saved, inserted>>

DirectNext ==
    \E u \in Users :
        \/ DirectSelect(u)
        \/ DirectProfilesWrite(u)
        \/ DirectFoodEntriesInsert(u)
        \/ DirectFoodEntriesUpdate(u)
        \/ RemoveEntry(u)

DirectSpec == StoreInit /\ [][DirectNext]_vars

\* The rows a user owns.
OwnedBy(b) ==
    [profiles |-> {r \in profiles : r.id = b},
     food_entries |-> {r \in food_entries : r.user_id = b}]

\* The owner of a row of either table.
OwnerOf(row) == IF "user_id" \in DOMAIN row THEN row.user_id ELSE row.id

\* C18: row level security keeps each user to their own rows: whatever
\* select, insert, update or delete is issued as user A, removeEntry with
\* any entry id included, it reads, creates, changes and removes no profiles
\* or food_entries row owned by another user B.
C18_RowsOfOthersAreOutOfReach ==
    [][\A b \in Users :
           b # last'.actor
           => /\ OwnedBy(b)' = OwnedBy(b)
              /\ \A row \in last'.rows : OwnerOf(row) # b]_vars

\* C18 witness: removeEntry was called with the id of a row of another
\* user, and the row is still there.
C18_Witness ==
    /\ last.op = "removeEntry"
    /\ \E row \in food_entries : row.id = last.id /\ row.user_id # last.actor

\* C19 as claimed: food_entries is append-only: after any sequence of
\* operations of the application, every row that was once inserted is still
\* present and unchanged.
C19_AppendOnly == inserted \subseteq food_entries

\* C19 as amended: no operation of the application changes a food_entries
\* row in place: every row of the table is as it was inserted, and a row
\* leaves the table only by removeEntry called with its id by its owner.
C19_RowsLeaveOnlyByOwnersRemoveEntry ==
    [][/\ food_entries' \subseteq inserted'
       /\ \A row \in food_entries \ food_entries' :
              /\ last'.op = "removeEntry"
              /\ last'.actor = row.user_id
              /\ last'.id = row.id]_vars

\* C19 witness: a row that was inserted has been removed by its owner, and
\* another row of the log is still there.
C19_Witness ==
    /\ last.op = "removeEntry"
    /\ \E row \in inserted \ food_entries : row.id = last.id /\ row.user_id = last.actor
    /\ food_entries # {}

\* The rows of profiles with the id of the user.
ProfilesOf(u) == {r \in profiles : r.id = u}

besidesSettings == <<env, followed, inflight, store, trackerPage, clientClock,
                     onboardingPage, chatPage>>

\* fetchProfile of the effect that runs on mount: the page renders nothing
\* before setProfile(typedProfile).
SettingsFetchProfile ==
    /\ profile = Null
    /\ profile' = profileRow
    /\ UNCHANGED <<profileRow, calls, entered>>
    /\ UNCHANGED besidesSettings

\* onChange of an input: updateProfileWithCalculations({field: value}) up to
\* its first await.  profile is the state of the render the handler closed
\* over, which is the state as it is now.
SettingsOnChange(s) ==
    /\ profile # Null
    /\ calls[s] = NoCall
    /\ \E input \in SettingsInputs, field \in {"weight", "height", "age"} :
        LET newProfile == Recalculated([profile EXCEPT ![field] = input[field]])
        IN  /\ calls' = [calls EXCEPT ![s] = [pc |-> "update", newProfile |-> newProfile]]
            /\ entered' = Recalculated([entered EXCEPT ![field] = input[field]])
    /\ UNCHANGED <<profile, profileRow>>
    /\ UNCHANGED besidesSettings

\* The update of the auto-save reaches the store.
SettingsAutoSaved(s) ==
    /\ calls[s].pc = "update"
    /\ profileRow' = calls[s].newProfile
    /\ calls' = [calls EXCEPT ![s].pc = "setProfile"]
    /\ UNCHANGED <<profile, entered>>
    /\ UNCHANGED besidesSettings

\* The await of the update returns: setProfile(newProfile).
SettingsSetProfile(s) ==
    /\ calls[s].pc = "setProfile"
    /\ profile' = calls[s].newProfile
    /\ calls' = [calls EXCEPT ![s] = NoCall]
    /\ UNCHANGED <<profileRow, entered>>
    /\ UNCHANGED besidesSettings

SettingsNext ==
    \/ SettingsFetchProfile
    \/ \E s \in Slots :
        \/ SettingsOnChange(s)
        \/ SettingsAutoSaved(s)
        \/ SettingsSetProfile(s)

SettingsSpec == StoreInit /\ [][SettingsNext]_vars

\* C21: in Settings, field edits are not lost under interleaving: once every
\* call of updateProfileWithCalculations has completed, the local profile
\* holds the value entered last of every edited field and the calories
\* computed from them.
C21_EditsAreNotLost ==
    (profile # Null /\ \A s \in Slots : calls[s] = NoCall) => profile = entered

(***************************************************************************)
(* The tracker page (CalorieTracker), followed through its awaits: the     *)
(* loads its effect starts, and the inserts and deletes of its handlers.   *)
(* A food_entries row carries the date of its logged_at.                   *)
(***************************************************************************)
\* The user of the session.
sessionUser == "alice"

\* What the actions of the tracker leave alone.
besidesTracker == <<env, followed, inflight, profiles, settings, saved, settingsPage,
                    clientClock, onboardingPage, chatPage>>

\* The slot the next call is followed in: the first that is free.
FreeSlot(s) == pending[s] = NoCall /\ \A x \in 1..(s - 1) : pending[x] # NoCall

\* Neither add-food modal is shown: both cover the page (fixed inset-0).
NoModal == ~showFoodSearch /\ ~showCustomFood

\* The meal sections whose button the user clicks.
SectionsClicked == {"dinner"}

\* What the Select of CustomFoodForm holds at submit: nothing, or one of its
\* items.
FormMealTypes == {"", "snacks"}

\* .order('logged_at', { ascending: false })
RECURSIVE NewestFirst(_)
NewestFirst(rows) ==
    IF rows = {} THEN <<>>
    ELSE LET r == CHOOSE x \in rows : \A o \in rows : o.id <= x.id
         IN  <<r>> \o NewestFirst(rows \ {r})

\* The select of loadEntriesForDate(date).
EntriesOn(date) ==
    NewestFirst({r \in FoodEntriesSelect(sessionUser, sessionUser) : r.date = date})

\* food.meal_type || mealType || selectedMealType, with "undefined" for a
\* value that is not given.
ResolvedMealType(foodMealType, mealType, selected) ==
    IF foodMealType \notin {"", "undefined"} THEN foodMealType
    ELSE IF mealType \notin {"", "undefined"} THEN mealType
    ELSE selected

\* handleAddFood with the selectedMealType left as it is.
HandleAddFoodKeepingMealType(mealType) ==
    /\ ~trackerLoading
    /\ NoModal
    /\ showFoodSearch' = TRUE
    /\ UNCHANGED <<selectedDate, todaysEntries, trackerLoading, showCustomFood,
                   selectedMealType, pending, resolved, loadFailed, loadedDate>>
    /\ UNCHANGED <<besidesTracker, food_entries, nextId, last, inserted>>

\* The button of a meal section: handleAddFood(mealType).
HandleAddFood(mealType) ==
    /\ ~trackerLoading
    /\ NoModal
    /\ selectedMealType' = mealType
    /\ showFoodSearch' = TRUE
    /\ UNCHANGED <<selectedDate, todaysEntries, trackerLoading, showCustomFood, pending,
                   resolved, loadFailed, loadedDate>>
    /\ UNCHANGED <<besidesTracker, food_entries, nextId, last, inserted>>

\* The button "Add Custom Food" of the page: setShowCustomFood(true).
ShowCustomFood ==
    /\ ~trackerLoading
    /\ NoModal
    /\ showCustomFood' = TRUE
    /\ UNCHANGED <<selectedDate, todaysEntries, trackerLoading, showFoodSearch,
                   selectedMealType, pending, resolved, loadFailed, loadedDate>>
    /\ UNCHANGED <<besidesTracker, food_entries, nextId, last, inserted>>

\* onClose of the modal that is shown.
OnClose ==
    /\ ~NoModal
    /\ IF showFoodSearch
       THEN showFoodSearch' = FALSE /\ UNCHANGED showCustomFood
       ELSE showCustomFood' = FALSE /\ UNCHANGED showFoodSearch
    /\ selectedMealType' = ""
    /\ UNCHANGED <<selectedDate, todaysEntries, trackerLoading, pending, resolved,
                   loadFailed, loadedDate>>
    /\ UNCHANGED <<besidesTracker, food_entries, nextId, last, inserted>>

\* The effect of the first render: initializeData up to the await of
\* loadEntriesForDate(selectedDate).
TrackerMount ==
    /\ trackerLoading
    /\ \A s \in Slots : pending[s] = NoCall
    /\ pending' = [pending EXCEPT ![1] = [pc |-> "load", date |-> selectedDate]]
    /\ UNCHANGED <<selectedDate, todaysEntries, trackerLoading, showFoodSearch,
                   showCustomFood, selectedMealType, resolved, loadFailed, loadedDate>>
    /\ UNCHANGED <<besidesTracker, food_entries, nextId, last, inserted>>

\* handleDateChange, goToPreviousDay, goToNextDay, goToToday: the date is
\* set, and the effect runs again for it.
HandleDateChange(s) ==
    /\ ~trackerLoading
    /\ NoModal
    /\ FreeSlot(s)
    /\ \E newDate \in Dates \ {selectedDate} :
        /\ selectedDate' = newDate
        /\ pending' = [pending EXCEPT ![s] = [pc |-> "load", date |-> newDate]]
    /\ UNCHANGED <<todaysEntries, trackerLoading, showFoodSearch, showCustomFood,
                   selectedMealType, resolved, loadFailed, loadedDate>>
    /\ UNCHANGED <<besidesTracker, food_entries, nextId, last, inserted>>

\* The select of loadEntriesForDate returns, with the rows or with an error.
LoadEntriesReturn(s) ==
    /\ pending[s].pc = "load"
    /\ \/ /\ todaysEntries' = EntriesOn(pending[s].date)
          /\ loadedDate' = pending[s].date
          /\ UNCHANGED loadFailed
       \/ /\ loadFailed' = TRUE
          /\ UNCHANGED <<todaysEntries, loadedDate>>
    /\ trackerLoading' = FALSE
    /\ pending' = [pending EXCEPT ![s] = NoCall]
    /\ UNCHANGED <<selectedDate, showFoodSearch, showCustomFood, selectedMealType,
                   resolved>>
    /\ UNCHANGED <<besidesTracker, food_entries, nextId, last, inserted>>

\* addFoodEntry up to the await of its insert, called by the modal that is
\* shown: FoodSearch hands on a food without meal_type, with selectedMealType
\* as mealType; CustomFoodForm hands on the meal_type of its Select, and
\* returns early when that is empty.
AddFoodEntryCall(s) ==
    /\ FreeSlot(s)
    /\ nextId + Cardinality({x \in Slots : pending[x].pc = "insert"}) <= MaxEntries
    /\ \E name \in {"egg"}, formMealType \in FormMealTypes :
        LET foodMealType == IF showFoodSearch THEN "undefined" ELSE formMealType
            mealType == IF showFoodSearch THEN selectedMealType ELSE "undefined"
            meal_type == ResolvedMealType(foodMealType, mealType, selectedMealType)
        IN  /\ showFoodSearch \/ (showCustomFood /\ formMealType # "")
            /\ pending' = [pending EXCEPT ![s] =
                              [pc |-> "insert",
                               row |-> [user_id |-> sessionUser, name |-> name,
                                        calories |-> 78,
                                        meal_type |-> meal_type, date |-> selectedDate]]]
            /\ resolved' = resolved \cup {meal_type}
    /\ UNCHANGED <<selectedDate, todaysEntries, trackerLoading, showFoodSearch,
                   showCustomFood, selectedMealType, loadFailed, loadedDate>>
    /\ UNCHANGED <<besidesTracker, food_entries, nextId, last, inserted>>

\* The row of an insert under way, with the id the store gives it.
RowOf(call) ==
    [id |-> nextId, user_id |-> call.row.user_id, name |-> call.row.name,
     calories |-> call.row.calories, meal_type |-> call.row.meal_type,
     date |-> call.row.date]

\* The insert returns: the rest of addFoodEntry, or its catch.
AddFoodEntryReturn(s) ==
    /\ pending[s].pc = "insert"
    /\ \E reached \in BOOLEAN :
        LET row == RowOf(pending[s])
            r == IF reached THEN FoodEntriesInsert(sessionUser, row)
                 ELSE Failed(food_entries)
        IN  IF r.ok
            THEN /\ food_entries' = r.table
                 /\ nextId' = nextId + 1
                 /\ last' = Operation("addFoodEntry", sessionUser, row.id, {row})
                 /\ todaysEntries' = <<row>> \o todaysEntries
                 /\ showFoodSearch' = FALSE
                 /\ showCustomFood' = FALSE
                 /\ selectedMealType' = ""
            ELSE /\ last' = Operation("addFoodEntry failed", sessionUser, 0, {})
                 /\ UNCHANGED <<food_entries, nextId, todaysEntries,
                                showFoodSearch, showCustomFood, selectedMealType>>
    /\ pending' = [pending EXCEPT ![s] = NoCall]
    /\ UNCHANGED <<selectedDate, trackerLoading, resolved, loadFailed, loadedDate>>
    /\ UNCHANGED <<besidesTracker, inserted>>

\* The Remove button of an entry shown: removeEntry(id) up to the await of
\* its delete.
RemoveEntryCall(s) ==
    /\ ~trackerLoading
    /\ NoModal
    /\ FreeSlot(s)
    /\ \E i \in 1..Len(todaysEntries) :
        pending' = [pending EXCEPT ![s] = [pc |-> "delete", id |-> todaysEntries[i].id]]
    /\ UNCHANGED <<selectedDate, todaysEntries, trackerLoading, showFoodSearch,
                   showCustomFood, selectedMealType, resolved, loadFailed, loadedDate>>
    /\ UNCHANGED <<besidesTracker, food_entries, nextId, last, inserted>>

\* A filter that drops the first entry, whatever its id.
WithoutFirstEntry(entries, id) == IF entries = <<>> THEN <<>> ELSE Tail(entries)

\* prev.filter(entry => entry.id !== id)
WithoutEntry(entries, id) == SelectSeq(entries, LAMBDA entry : entry.id # id)

\* The delete returns: the rest of removeEntry, or its catch.
RemoveEntryReturn(s) ==
    /\ pending[s].pc = "delete"
    /\ LET id == pending[s].id
       IN  \/ /\ food_entries' = FoodEntriesDelete(sessionUser, id).table
              /\ todaysEntries' = WithoutEntry(todaysEntries, id)
              /\ last' = Operation("removeEntry", sessionUser, id, {})
           \/ /\ last' = Operation("removeEntry failed", sessionUser, id, {})
              /\ UNCHANGED <<food_entries, todaysEntries>>
    /\ pending' = [pending EXCEPT ![s] = NoCall]
    /\ UNCHANGED <<selectedDate, trackerLoading, showFoodSearch, showCustomFood,
                   selectedMealType, resolved, loadFailed, loadedDate>>
    /\ UNCHANGED <<besidesTracker, nextId, inserted>>

\* The tracker as its dates are changed and entries are added.
TrackerNext ==
    \/ TrackerMount
    \/ \E mealType \in SectionsClicked : HandleAddFood(mealType)
    \/ OnClose
    \/ \E s \in Slots :
        \/ HandleDateChange(s)
        \/ LoadEntriesReturn(s)
        \/ AddFoodEntryCall(s)
        \/ AddFoodEntryReturn(s)

TrackerSpec == StoreInit /\ [][TrackerNext]_vars

\* C22: in the tracker, once every load in flight has completed (none of
\* them with an error), the entries shown were loaded for the date that is
\* selected: when the date is changed while a load is pending, the late
\* reply for the earlier date does not overwrite or outlive the entries
\* loaded for the later one.
C22_EntriesAreOfSelectedDate ==
    (/\ ~trackerLoading
     /\ ~loadFailed
     /\ \A s \in Slots : pending[s].pc # "load")
    => loadedDate = selectedDate

\* The tracker on one date, as entries are added and removed.
LogNext ==
    \/ TrackerMount
    \/ \E mealType \in SectionsClicked : HandleAddFood(mealType)
    \/ ShowCustomFood
    \/ OnClose
    \/ \E s \in Slots :
        \/ LoadEntriesReturn(s)
        \/ AddFoodEntryCall(s)
        \/ AddFoodEntryReturn(s)
        \/ RemoveEntryCall(s)
        \/ RemoveEntryReturn(s)

LogSpec == StoreInit /\ [][LogNext]_vars

(***************************************************************************)
(* Termination of the handlers of FoodSearch.  What the runtime schedules  *)
(* is fair: a request that was received is served, a fetch settles, a      *)
(* FileReader that can read the file fires onload, and the continuation of *)
(* an await that has settled runs.  What the user does is not.             *)
(***************************************************************************)
FairSpec ==
    /\ Spec
    /\ WF_vars(EstimateNutritionServe)
    /\ WF_vars(EstimateNutritionFetched)
    /\ WF_vars(SearchFoodInvoked)
    /\ WF_vars(SearchFoodReturn)
    /\ WF_vars(ProcessImageFileRead)
    /\ WF_vars(ProcessImageFileReturn)

\* C23: after processImageFile sets scanningPhoto to true, and after
\* searchFood sets loading to true, the flag eventually returns to false on
\* every outcome: the file read succeeds or fails, the API key is missing,
\* the upstream answers with an error, the parse fails or succeeds.
C23_FlagsReturnToFalse ==
    /\ scanningPhoto ~> ~scanningPhoto
    /\ loading ~> ~loading

\* The entries of the list other than the one with the id, in their order.
Others(entries, id) == SelectSeq(entries, LAMBDA entry : entry.id # id)

\* C24: the local entry list of the tracker mirrors the store: an
\* addFoodEntry whose insert succeeds prepends exactly the inserted row and
\* closes both add-food modals, a removeEntry whose delete succeeds removes
\* exactly the entry with that id, and when the insert or the delete fails,
\* the list, the modal flags and selectedMealType are left unchanged.
C24_ListMirrorsStore ==
    [][\A s \in Slots :
        /\ (pending[s].pc = "insert" /\ pending'[s] = NoCall)
           => IF food_entries' # food_entries
              THEN /\ \E row \in food_entries' \ food_entries :
                        /\ food_entries' = food_entries \cup {row}
                        /\ todaysEntries' = <<row>> \o todaysEntries
                   /\ ~showFoodSearch' /\ ~showCustomFood'
              ELSE UNCHANGED <<todaysEntries, showFoodSearch, showCustomFood,
                               selectedMealType>>
        /\ (pending[s].pc = "delete" /\ pending'[s] = NoCall)
           => IF last'.op = "removeEntry"
              THEN /\ todaysEntries' = Others(todaysEntries, pending[s].id)
                   /\ \A r \in food_entries' : r.id # pending[s].id
                   /\ UNCHANGED <<showFoodSearch, showCustomFood, selectedMealType>>
              ELSE UNCHANGED <<food_entries, todaysEntries, showFoodSearch,
                               showCustomFood, selectedMealType>>]_vars

\* C24 witness: of two entries that were added, removeEntry has removed the
\* older one from the store and from the list, and the newer one is left in
\* both.
C24_Witness ==
    /\ last.op = "removeEntry"
    /\ Len(todaysEntries) = 1
    /\ todaysEntries[1].id > last.id
    /\ food_entries = {todaysEntries[1]}
    /\ NoModal

DayNumbers == {1, 2, 3}

\* The times of day the client's clock shows, and the UTC offsets of its
\* time zone (east of Greenwich is positive).
Clocks ==
    [time : {0, 3600, 43200, 79200, 86398, 86399},
     offset : {-28800, -18000, 0, 3600, 28800}]

\* new Date(selectedDate + 'T' + new Date().toTimeString().split(' ')[0]):
\* a date-time string without an offset is local time; toISOString() gives
\* it in UTC.
LoggedAt(date, c) == date * 86400 + c.time - c.offset

\* .gte('logged_at', `${date}T00:00:00`).lt('logged_at', `${date}T23:59:59`):
\* the store reads a timestamp without a zone in its own zone, UTC.
InRangeOfDate(date, instant) ==
    /\ instant >= date * 86400
    /\ instant < date * 86400 + 86399

\* The clock of the client moves, or the client is in another time zone.
ClockChange ==
    /\ clock' \in Clocks
    /\ stamped' = Null
    /\ UNCHANGED <<env, followed, inflight, store, settingsPage, trackerPage,
                   onboardingPage, chatPage>>

\* addFoodEntry, as far as its logged_at goes, with a date selected.
StampEntry ==
    /\ \E date \in DayNumbers :
        stamped' = [date |-> date, logged_at |-> LoggedAt(date, clock)]
    /\ UNCHANGED clock
    /\ UNCHANGED <<env, followed, inflight, store, settingsPage, trackerPage,
                   onboardingPage, chatPage>>

LoggedAtNext == ClockChange \/ StampEntry

LoggedAtSpec == StoreInit /\ [][LoggedAtNext]_vars

\* C26: an entry added while date D is selected is stored with a logged_at
\* inside the range that loadEntriesForDate(D) queries (>= D 00:00:00 and
\* < D 23:59:59), so that reloading date D returns it, for every time of day
\* and every UTC offset of the client.
C26_LoggedAtIsInRangeOfSelectedDate ==
    stamped # Null => InRangeOfDate(stamped.date, stamped.logged_at)

(***************************************************************************)
(* The totals of the dashboard and of its four meal sections, over the     *)
(* entries the store returns: those the tracker added, and those that were *)
(* logged before the meal_type column was added to the table.              *)
(***************************************************************************)
\* entries.reduce((sum, entry) => sum + Number(entry.calories), 0)
RECURSIVE TotalCalories(_)
TotalCalories(entries) ==
    IF entries = <<>> THEN 0
    ELSE Head(entries).calories + TotalCalories(Tail(entries))

\* entries.filter(entry => entry.meal_type === mealType) of MealSection
MealEntries(entries, mealType) ==
    SelectSeq(entries,
              LAMBDA entry : "meal_type" \in DOMAIN entry /\ entry.meal_type = mealType)

\* The totals of the four MealSection instances of the page, added up.
RECURSIVE SectionTotals(_, _)
SectionTotals(entries, sections) ==
    IF sections = {} THEN 0
    ELSE LET mealType == CHOOSE m \in sections : TRUE
         IN  TotalCalories(MealEntries(entries, mealType))
                 + SectionTotals(entries, sections \ {mealType})

\* A row logged through the first version of the table: ADD COLUMN
\* meal_type leaves it with NULL.
EarlierInsert ==
    /\ trackerLoading
    /\ \A s \in Slots : pending[s] = NoCall
    /\ nextId < MaxEntries
    /\ \E calories \in {50, 200, 350} :
        LET row == [id |-> nextId, user_id |-> sessionUser, name |-> "toast",
                    calories |-> calories, date |-> selectedDate]
            r == FoodEntriesInsert(sessionUser, row)
        IN  /\ food_entries' = r.table
            /\ last' = Operation("insert food_entries", sessionUser, nextId, {row})
    /\ nextId' = nextId + 1
    /\ UNCHANGED <<besidesTracker, inserted, trackerPage>>

\* The tracker over a table that holds earlier rows.
TotalsNext ==
    \/ EarlierInsert
    \/ TrackerMount
    \/ \E mealType \in SectionsClicked : HandleAddFood(mealType)
    \/ OnClose
    \/ \E s \in Slots :
        \/ LoadEntriesReturn(s)
        \/ AddFoodEntryCall(s)
        \/ AddFoodEntryReturn(s)

TotalsSpec == StoreInit /\ [][TotalsNext]_vars

\* C27: the total calories of the day shown on the dashboard equal the sum
\* of the totals of the four meal sections, for every list of entries the
\* store can return: every entry that is counted appears in exactly one
\* section.
C27_TotalIsSumOfSections ==
    TotalCalories(todaysEntries) = SectionTotals(todaysEntries, MealTypes)

(***************************************************************************)
(* Onboarding: its three steps.  Weight, height and age are whole numbers  *)
(* as typed; the constants of the Harris-Benedict equation are counted in  *)
(* thousandths and the activity multipliers in fortieths, so that no       *)
(* product is rounded before Math.round.                                   *)
(***************************************************************************)
besidesOnboarding == <<env, followed, inflight, food_entries, nextId, settings, saved,
                       inserted, settingsPage, trackerPage, clientClock, chatPage>>

\* What the user types into the number inputs of step 1.
Weights == {0, 70}
Heights == {0, 175}
Ages == {0, 30}

\* bmr of calculateMaintenanceCalories, in thousandths.
HarrisBenedict(p) ==
    IF p.gender = "male"
    THEN 88362 + 13397 * p.weight + 4799 * p.height - 5677 * p.age
    ELSE 447593 + 9247 * p.weight + 3098 * p.height - 4330 * p.age

\* activityMultipliers of Onboarding, in fortieths.
onboardingMultipliers ==
    [x \in {"sedentary", "light", "moderate", "active", "very-active"} |->
        CASE x = "sedentary" -> 48
          [] x = "light" -> 55
          [] x = "moderate" -> 62
          [] x = "active" -> 69
          [] OTHER -> 76]

\* maintenanceCalories of calculateMaintenanceCalories
maintenanceCalories(p) ==
    MathRound(HarrisBenedict(p) * onboardingMultipliers[p.activity_level], 40000)

\* targetCalories of calculateMaintenanceCalories
targetCalories(p) ==
    CASE p.goal = "bulk" -> maintenanceCalories(p) + 500
      [] p.goal = "cut" -> maintenanceCalories(p) - 500
      [] OTHER -> maintenanceCalories(p)

\* calculateMaintenanceCalories: the profile state it sets.
Calculated(p) ==
    [p EXCEPT !.maintenance_calories = maintenanceCalories(p),
              !.target_calories = targetCalories(p)]

\* isStepValid
isStepValid ==
    CASE onboardingStep = 1 -> /\ onboardingProfile.weight > 0
                     /\ onboardingProfile.height > 0
                     /\ onboardingProfile.age > 0
      [] onboardingStep = 2 -> TRUE
      [] onboardingStep = 3 -> TRUE
      [] OTHER -> FALSE

\* onChange of the inputs of step 1 and onValueChange of its gender group.
OnboardingStepOneChange ==
    /\ onboardingStep = 1
    /\ completing = "idle"
    /\ \E weight \in Weights, height \in Heights, age \in Ages, gender \in {"male", "female"} :
        onboardingProfile' = [onboardingProfile EXCEPT !.weight = weight,
                                                       !.height = height,
                                                       !.age = age,
                                                       !.gender = gender]
    /\ UNCHANGED <<onboardingStep, completing, upserted, profiles, last>>
    /\ UNCHANGED besidesOnboarding

\* onValueChange of the activity and goal groups of step 2.
OnboardingStepTwoChange ==
    /\ onboardingStep = 2
    /\ completing = "idle"
    /\ \E activity_level \in DOMAIN onboardingMultipliers, goal \in {"bulk", "cut", "maintain"} :
        onboardingProfile' = [onboardingProfile EXCEPT !.activity_level = activity_level,
                                                       !.goal = goal]
    /\ UNCHANGED <<onboardingStep, completing, upserted, profiles, last>>
    /\ UNCHANGED besidesOnboarding

\* The Back button: shown from step 2 on, disabled while loading.
OnboardingBack ==
    /\ onboardingStep > 1
    /\ completing = "idle"
    /\ onboardingStep' = onboardingStep - 1
    /\ UNCHANGED <<onboardingProfile, completing, upserted, profiles, last>>
    /\ UNCHANGED besidesOnboarding

\* handleNext that leaves the calories as they are.
handleNextWithoutCalculation ==
    /\ onboardingStep < 3
    /\ isStepValid
    /\ completing = "idle"
    /\ UNCHANGED onboardingProfile
    /\ onboardingStep' = onboardingStep + 1
    /\ UNCHANGED <<completing, upserted, profiles, last>>
    /\ UNCHANGED besidesOnboarding

\* handleNext of the Next button, which is shown before step 3 and disabled
\* unless isStepValid().
handleNext ==
    /\ onboardingStep < 3
    /\ isStepValid
    /\ completing = "idle"
    /\ onboardingProfile' = IF onboardingStep = 2 THEN Calculated(onboardingProfile)
                            ELSE onboardingProfile
    /\ onboardingStep' = onboardingStep + 1
    /\ UNCHANGED <<completing, upserted, profiles, last>>
    /\ UNCHANGED besidesOnboarding

\* handleComplete of the Complete button of step 3, up to its first await.
handleCompleteCall ==
    /\ onboardingStep = 3
    /\ completing = "idle"
    /\ completing' = "saving"
    /\ UNCHANGED <<onboardingStep, onboardingProfile, upserted, profiles, last>>
    /\ UNCHANGED besidesOnboarding

\* handleComplete from getSession on: without a session or with an error of
\* the upsert the page stays; otherwise it navigates to the tracker.
handleCompleteReturn ==
    /\ completing = "saving"
    /\ \/ /\ completing' = "idle"
          /\ last' = Operation("handleComplete failed", sessionUser, 0, {})
          /\ UNCHANGED <<upserted, profiles>>
       \/ LET r == ProfilesUpsert(sessionUser, sessionUser,
                                  [weight |-> 1000 * onboardingProfile.weight,
                                   age |-> 1000 * onboardingProfile.age])
          IN  /\ profiles' = r.table
              /\ last' = Operation("handleComplete", sessionUser, 0, {})
              /\ upserted' = IF r.ok THEN onboardingProfile ELSE upserted
              /\ completing' = IF r.ok THEN "left" ELSE "idle"
    /\ UNCHANGED <<onboardingStep, onboardingProfile>>
    /\ UNCHANGED besidesOnboarding

OnboardingNext ==
    \/ OnboardingStepOneChange
    \/ OnboardingStepTwoChange
    \/ OnboardingBack
    \/ handleNext
    \/ handleCompleteCall
    \/ handleCompleteReturn

OnboardingSpec == StoreInit /\ [][OnboardingNext]_vars

\* The calories of a profile are those calculated from its other values.
CaloriesAreCurrent(p) ==
    /\ p.maintenance_calories = maintenanceCalories(p)
    /\ p.target_calories = p.maintenance_calories +
           (CASE p.goal = "bulk" -> 500 [] p.goal = "cut" -> 0 - 500 [] OTHER -> 0)

\* C28: in Onboarding, after any sequence of Next, Back and field edits, the
\* step stays in 1..3; step 1 is not left unless weight, height and age are
\* all above 0; and whenever step 3 is shown, and when Complete saves,
\* maintenance_calories is the value calculated from the inputs entered and
\* target_calories is maintenance + 500 for bulk, - 500 for cut and equal
\* for maintain.
C28_OnboardingStepsAndCalories ==
    /\ onboardingStep \in 1..3
    /\ onboardingStep > 1 => /\ onboardingProfile.weight > 0
                   /\ onboardingProfile.height > 0
                   /\ onboardingProfile.age > 0
    /\ onboardingStep = 3 => CaloriesAreCurrent(onboardingProfile)
    /\ upserted # Null => CaloriesAreCurrent(upserted)

\* Complete saved a profile whose activity level and goal were changed from
\* those the page starts with.
C28_Witness ==
    /\ upserted # Null
    /\ upserted.goal = "cut"
    /\ upserted.activity_level = "active"
    /\ upserted.gender = "female"

(***************************************************************************)
(* The chat of the tracker page.  A message is its role and its content;   *)
(* the content of an assistant message is named by its kind.               *)
(***************************************************************************)
besidesChat == <<followed, inflight, store, settingsPage, trackerPage, clientClock,
                 onboardingPage>>

\* What the user types into the input.
ChatInputs == {<<>>, <<" ">>, <<" ", "h", "i">>}

\* How the fetch of the completion ends: it rejects, it replies with an
\* error status, it replies without a content, it replies with a content.
FetchOutcomes == {"rejected", "not ok", "no content", "content"}

\* errorContent of the catch block, by the message of the error.
errorContent(message) ==
    CASE message = "API key not configured" -> "not configured"
      [] message = "OpenAI API error" -> "issue with the AI service"
      [] OTHER -> "trouble connecting"

\* The catch and finally blocks of sendChatMessage.
Caught(message) ==
    /\ chatMessages' = Append(chatMessages,
                              [role |-> "assistant", content |-> errorContent(message)])
    /\ isChatLoading' = FALSE
    /\ chatCall' = "idle"

\* onChange of the input, which is disabled while isChatLoading.
OnChatInputChange ==
    /\ ~isChatLoading
    /\ chatInput' \in ChatInputs
    /\ UNCHANGED <<chatMessages, isChatLoading, chatCall, sends>>
    /\ UNCHANGED <<env, besidesChat>>

\* sendChatMessage up to its first await, from the Enter key of the input
\* or from the send button; both are disabled while isChatLoading.
sendChatMessage ==
    /\ ~isChatLoading
    /\ sends < MaxSends
    /\ IF Trim(chatInput) = <<>>
       THEN UNCHANGED <<chatMessages, chatInput, isChatLoading, chatCall, sends>>
       ELSE /\ chatMessages' = Append(chatMessages,
                                      [role |-> "user", content |-> Trim(chatInput)])
            /\ chatInput' = <<>>
            /\ isChatLoading' = TRUE
            /\ chatCall' = "sent"
            /\ sends' = sends + 1
    /\ UNCHANGED <<env, besidesChat>>

\* sendChatMessage from the check of the key to the fetch: without a key or
\* without a session it throws.
sendChatMessagePrepare ==
    /\ chatCall = "sent"
    /\ IF ~Truthy(env["VITE_OPENAI_API_KEY"])
       THEN Caught("API key not configured")
       ELSE \/ Caught("User not authenticated")
            \/ /\ chatCall' = "fetching"
               /\ UNCHANGED <<chatMessages, isChatLoading>>
    /\ UNCHANGED <<chatInput, sends>>
    /\ UNCHANGED <<env, besidesChat>>

\* sendChatMessage after the fetch, with an error that no catch block turns
\* into a message.
sendChatMessageFetchedSilently ==
    /\ chatCall = "fetching"
    /\ \E outcome \in FetchOutcomes :
        CASE outcome = "content" ->
                 /\ chatMessages' = Append(chatMessages,
                                           [role |-> "assistant", content |-> "reply"])
                 /\ isChatLoading' = FALSE
                 /\ chatCall' = "idle"
          [] OTHER ->
                 /\ isChatLoading' = FALSE
                 /\ chatCall' = "idle"
                 /\ UNCHANGED chatMessages
    /\ UNCHANGED <<chatInput, sends>>
    /\ UNCHANGED <<env, besidesChat>>

\* sendChatMessage after the fetch.
sendChatMessageFetched ==
    /\ chatCall = "fetching"
    /\ \E outcome \in FetchOutcomes :
        CASE outcome = "content" ->
                 /\ chatMessages' = Append(chatMessages,
                                           [role |-> "assistant", content |-> "reply"])
                 /\ isChatLoading' = FALSE
                 /\ chatCall' = "idle"
          [] outcome = "not ok" -> Caught("OpenAI API error")
          [] outcome = "no content" -> Caught("No response from AI")
          [] OTHER -> Caught("Failed to fetch")
    /\ UNCHANGED <<chatInput, sends>>
    /\ UNCHANGED <<env, besidesChat>>

ChatNext ==
    \/ OnChatInputChange
    \/ sendChatMessage
    \/ sendChatMessagePrepare
    \/ sendChatMessageFetched

\* Every await of sendChatMessage settles.
ChatSpec ==
    /\ Init
    /\ [][ChatNext]_vars
    /\ WF_vars(sendChatMessagePrepare)
    /\ WF_vars(sendChatMessageFetched)

\* The messages after the greeting are a user message and an assistant
\* message for each message sent, the last pair without its assistant
\* message while its send is in flight.
OnePairPerSend ==
    /\ Len(chatMessages) = 1 + 2 * sends - (IF isChatLoading THEN 1 ELSE 0)
    /\ \A i \in 1..Len(chatMessages) :
        chatMessages[i].role = (IF i % 2 = 1 THEN "assistant" ELSE "user")
    /\ isChatLoading <=> chatCall # "idle"

\* C29: in the chat, every non-empty message sent appends exactly one user
\* message followed by exactly one assistant message (the reply of the
\* model or an error text); the loading flag returns to false on every
\* outcome; and no second send starts while one is in flight.
C29_ChatSendsInPairs ==
    /\ []OnePairPerSend
    /\ isChatLoading ~> ~isChatLoading
    /\ [][isChatLoading => sends' = sends]_vars

\* Two messages were sent: the first was answered with a reply, the second
\* with an error text.
C29_Witness ==
    /\ sends = 2
    /\ ~isChatLoading
    /\ Len(chatMessages) = 5
    /\ chatMessages[2] = [role |-> "user", content |-> <<"h", "i">>]
    /\ chatMessages[3].content = "reply"
    /\ chatMessages[5].content = "issue with the AI service"

====
